---------------------------- MODULE Spec2Model ----------------------------
(***************************************************************************)
(* Model of the guarded turn pipeline of the Bank ABC voice agent:         *)
(* backend/app/tools.py (verification cache, tool gateway, mock data),     *)
(* backend/main.py (call/start, call/turn, call/end, output guardrail),    *)
(* backend/app/agent.py (the graph router -> chatbot -> tools),            *)
(* backend/app/session_repo.py (persistent session store) and              *)
(* backend/app/config_repo.py (per-environment config, admin endpoints).   *)
(*                                                                         *)
(* Strings the code inspects character by character (PINs, addresses) are  *)
(* sequences of one-character strings; identifiers the code only compares  *)
(* are TLA+ strings.                                                       *)
(***************************************************************************)
EXTENDS Integers, Sequences, FiniteSets, TLC

VARIABLES
    verified,     \* tools._VERIFIED_CUSTOMERS_CTX: the set of verified customer ids, as the
                  \* handlers and tools of one process see it in one execution context
    toolFlags,    \* tools._TOOL_FLAGS: tool name -> entry (a dict that may hold "enabled")
    db,           \* tools.MOCK_DB, its mutable parts
    clock,        \* time.time(), in whole seconds
    last,         \* what the latest step returned to its caller: a tool's result, a response
    USE_DB,       \* main.USE_DB: sessions live in the persistent store, not in main.SESSIONS
    sessions,     \* main.SESSIONS, or the call_sessions table: session id -> session
    turns,        \* session["turns"], or the call_turns table: session id -> turn records
    configs,      \* the configs table: env_key -> config
    reqs,         \* the requests being handled: slot -> the handler's position and locals
    ghost         \* per session: what its completed turns did (history, not program state)

toolVars == <<verified, toolFlags, db, clock>>
sessVars == <<USE_DB, sessions, turns, configs, reqs, ghost>>
vars == <<verified, toolFlags, db, clock, last, USE_DB, sessions, turns, configs, reqs,
          ghost>>

----------------------------------------------------------------------------
(* Bounds of the model *)

\* time.time() is followed up to this second
MaxClock == 1

----------------------------------------------------------------------------
(* Strings as character sequences *)

Whitespace == {" "}

RECURSIVE LStrip(_)
\* str.lstrip(): drop leading whitespace
LStrip(s) == IF s # <<>> /\ Head(s) \in Whitespace THEN LStrip(Tail(s)) ELSE s

RECURSIVE RStrip(_)
\* str.rstrip(): drop trailing whitespace
RStrip(s) ==
    IF s # <<>> /\ s[Len(s)] \in Whitespace THEN RStrip(SubSeq(s, 1, Len(s) - 1)) ELSE s

\* str.strip()
Strip(s) == RStrip(LStrip(s))

RECURSIVE Join(_)
\* "".join(chars): the string a character sequence spells
Join(s) == IF s = <<>> THEN "" ELSE Head(s) \o Join(Tail(s))

Digits == {"0", "1", "2", "3", "4", "5", "6", "7", "8", "9"}

Range(f) == {f[i] : i \in DOMAIN f}

LowerLetters ==
    <<"a", "b", "c", "d", "e", "f", "g", "h", "i", "j", "k", "l", "m",
      "n", "o", "p", "q", "r", "s", "t", "u", "v", "w", "x", "y", "z">>

UpperLetters ==
    <<"A", "B", "C", "D", "E", "F", "G", "H", "I", "J", "K", "L", "M",
      "N", "O", "P", "Q", "R", "S", "T", "U", "V", "W", "X", "Y", "Z">>

\* str.lower() of one character
LowerChar(c) ==
    IF \E i \in 1..Len(UpperLetters) : UpperLetters[i] = c
    THEN LowerLetters[CHOOSE i \in 1..Len(UpperLetters) : UpperLetters[i] = c]
    ELSE c

\* str.lower()
Lower(chars) == [i \in 1..Len(chars) |-> LowerChar(chars[i])]

----------------------------------------------------------------------------
(* tools.MOCK_DB *)

\* MOCK_DB["customers"]["user123"]["pin"]
StoredPin == <<"1", "2", "3", "4">>

\* The parts of MOCK_DB no operation writes: pin, name, contact, accounts,
\* transactions (most recent first) and statements of each customer.
MOCK_STATIC ==
    [user123 |->
        [pin |-> StoredPin,
         name |-> "John Doe",
         phone |-> "+1-202-555-0100",
         email |-> "john.doe@example.com",
         accounts |-> <<[account_id |-> "acc_123", type |-> "checking",
                         currency |-> "USD", available |-> 5000]>>,
         transactions |-> <<[id |-> "tx_1", amount |-> -50, status |-> "completed"],
                            [id |-> "tx_2", amount |-> -12, status |-> "completed"],
                            [id |-> "tx_3", amount |-> -100, status |-> "declined"]>>,
         statements |-> <<[period |-> "2025-12", statement_id |-> "st_202512", format |-> "pdf"],
                          [period |-> "2025-11", statement_id |-> "st_202511", format |-> "pdf"]>>]]

\* "12 Main St, Springfield, IL 62701", abbreviated
InitialAddress == <<"M">>

\* The parts of MOCK_DB operations write: each customer's address and card list,
\* the card records, the disputes (keyed by the second in their id "disp_<second>").
MOCK_DB ==
    [customers |->
        [user123 |->
            [address |-> InitialAddress,
             cards |-> <<[card_id |-> "card_123", status |-> "active"]>>]],
     cards |-> [card_123 |-> [customer_id |-> "user123", status |-> "active"]],
     disputes |-> <<>>]

\* dict.get(key) is not None
Has(f, k) == k \in DOMAIN f

----------------------------------------------------------------------------
(* tools.py: flags and the verification cache *)

ToolNames ==
    {"verify_identity", "get_verification_status", "get_account_balance",
     "get_customer_profile", "get_recent_transactions", "block_card",
     "get_customer_cards", "request_statement", "update_address",
     "report_cash_not_dispensed"}

\* The tools that return data of, or act on, a customer's account
SensitiveTools == ToolNames \ {"verify_identity", "get_verification_status"}

\* A flag entry without an "enabled" key: {}
NoEnabledKey == <<>>

\* _is_tool_enabled(name), reading _TOOL_FLAGS = flags
_is_tool_enabled(flags, name) ==
    IF ~Has(flags, name) THEN TRUE
    ELSE IF Has(flags[name], "enabled") THEN flags[name].enabled
    ELSE TRUE

\* _is_verified(customer_id), reading the cache ver
_is_verified(ver, customer_id) == customer_id \in ver

\* reset_verification(customer_id): the cache afterwards
reset_verification(ver, customer_id) ==
    IF customer_id \in ver THEN ver \ {customer_id} ELSE ver

\* set_verification_state that replaces the cache by the one customer
set_verification_state_alone(ver, customer_id, is_verified) ==
    IF is_verified THEN {customer_id} ELSE ver \ {customer_id}

\* set_verification_state(customer_id, is_verified): the cache afterwards
set_verification_state(ver, customer_id, is_verified) ==
    IF is_verified THEN ver \cup {customer_id}
    ELSE IF customer_id \in ver THEN ver \ {customer_id} ELSE ver


----------------------------------------------------------------------------
(* tools.py: the tool operations.  Each takes the call's arguments and the   *)
(* state it reads (the cache ver, the flags, the data d, the second t) and   *)
(* yields its return value with the cache and the data as it leaves them.    *)

\* What a tool returns: a bool, a dict (error = "" when it has no "error" key),
\* a list of dicts, or a string.
BoolResult(b) == [shape |-> "bool", ok |-> b]
DictResult(error, data) == [shape |-> "dict", error |-> error, data |-> data]
ListResult(items) == [shape |-> "list", items |-> items]
StrResult(text) == [shape |-> "str", text |-> text]
ErrorDict(error) == DictResult(error, <<>>)
ErrorList(error) == ListResult(<<ErrorDict(error)>>)

Outcome(result, ver, d) == [result |-> result, verified |-> ver, db |-> d]

\* verify_identity_raw without the comparison with the stored PIN
verify_identity_raw_any_pin(customer_id, pin, ver, d) ==
    LET normalized == Strip(pin) IN
    IF ~Has(d.customers, customer_id) THEN [ok |-> FALSE, verified |-> ver]
    ELSE IF Len(normalized) < 4 \/ Len(normalized) > 6 THEN [ok |-> FALSE, verified |-> ver]
    ELSE [ok |-> TRUE, verified |-> ver \cup {customer_id}]

\* verify_identity_raw(customer_id, pin): the value returned and the cache afterwards
verify_identity_raw(customer_id, pin, ver, d) ==
    LET normalized == Strip(pin) IN
    IF ~Has(d.customers, customer_id) THEN [ok |-> FALSE, verified |-> ver]
    ELSE IF Len(normalized) < 4 \/ Len(normalized) > 6 THEN [ok |-> FALSE, verified |-> ver]
    ELSE IF MOCK_STATIC[customer_id].pin # normalized THEN [ok |-> FALSE, verified |-> ver]
    ELSE [ok |-> TRUE, verified |-> ver \cup {customer_id}]

\* verify_identity taking the verification away when it fails
verify_identity_revoking(args, ver, flags, d, t) ==
    IF ~_is_tool_enabled(flags, "verify_identity") THEN Outcome(BoolResult(FALSE), ver, d)
    ELSE LET r == verify_identity_raw(args.customer_id, args.pin, ver, d)
         IN  Outcome(BoolResult(r.ok),
                     IF r.ok THEN r.verified ELSE r.verified \ {args.customer_id}, d)

\* @tool verify_identity(customer_id, pin)
verify_identity(args, ver, flags, d, t) ==
    IF ~_is_tool_enabled(flags, "verify_identity") THEN Outcome(BoolResult(FALSE), ver, d)
    ELSE LET r == verify_identity_raw(args.customer_id, args.pin, ver, d)
         IN  Outcome(BoolResult(r.ok), r.verified, d)

\* @tool get_verification_status(customer_id)
get_verification_status(args, ver, flags, d, t) ==
    IF ~_is_tool_enabled(flags, "get_verification_status")
    THEN Outcome(DictResult("tool_disabled", [verified |-> FALSE]), ver, d)
    ELSE Outcome(DictResult("", [verified |-> _is_verified(ver, args.customer_id)]), ver, d)

\* @tool get_account_balance(customer_id)
get_account_balance(args, ver, flags, d, t) ==
    IF ~_is_tool_enabled(flags, "get_account_balance") THEN Outcome(ErrorDict("tool_disabled"), ver, d)
    ELSE IF ~_is_verified(ver, args.customer_id) THEN Outcome(ErrorDict("identity_not_verified"), ver, d)
    ELSE IF ~Has(d.customers, args.customer_id) THEN Outcome(ErrorDict("customer_not_found"), ver, d)
    ELSE LET acct == MOCK_STATIC[args.customer_id].accounts[1]
         IN  Outcome(DictResult("", [customer_id |-> args.customer_id,
                                     account_id |-> acct.account_id,
                                     type |-> acct.type,
                                     available |-> acct.available,
                                     currency |-> acct.currency,
                                     as_of |-> t]), ver, d)

\* @tool get_customer_profile(customer_id)
get_customer_profile(args, ver, flags, d, t) ==
    IF ~_is_tool_enabled(flags, "get_customer_profile") THEN Outcome(ErrorDict("tool_disabled"), ver, d)
    ELSE IF ~_is_verified(ver, args.customer_id) THEN Outcome(ErrorDict("identity_not_verified"), ver, d)
    ELSE IF ~Has(d.customers, args.customer_id) THEN Outcome(ErrorDict("customer_not_found"), ver, d)
    ELSE Outcome(DictResult("", [customer_id |-> args.customer_id,
                                 name |-> MOCK_STATIC[args.customer_id].name,
                                 address |-> d.customers[args.customer_id].address,
                                 phone |-> MOCK_STATIC[args.customer_id].phone,
                                 email |-> MOCK_STATIC[args.customer_id].email]), ver, d)

\* min(int(count), 20), without the lower limit
SafeCount_no_minimum(count) == IF count < 20 THEN count ELSE 20

\* max(1, min(int(count), 20))
SafeCount(count) ==
    LET capped == IF count < 20 THEN count ELSE 20
    IN  IF capped > 1 THEN capped ELSE 1

\* seq[:n]
Take(seq, n) == SubSeq(seq, 1, IF n < Len(seq) THEN n ELSE Len(seq))

\* @tool get_recent_transactions(customer_id, count)
get_recent_transactions(args, ver, flags, d, t) ==
    IF ~_is_tool_enabled(flags, "get_recent_transactions") THEN Outcome(ErrorList("tool_disabled"), ver, d)
    ELSE IF ~_is_verified(ver, args.customer_id) THEN Outcome(ErrorList("identity_not_verified"), ver, d)
    ELSE IF ~Has(d.customers, args.customer_id) THEN Outcome(ErrorList("customer_not_found"), ver, d)
    ELSE Outcome(ListResult(Take(MOCK_STATIC[args.customer_id].transactions,
                                 SafeCount(args.count))), ver, d)

\* The loop of block_card, flipping the status of the card instead of setting it
BlockInList_flip(cards, card_id) ==
    IF \E i \in 1..Len(cards) : cards[i].card_id = card_id
    THEN LET i == CHOOSE j \in 1..Len(cards) :
                    /\ cards[j].card_id = card_id
                    /\ \A k \in 1..(j - 1) : cards[k].card_id # card_id
         IN  [cards EXCEPT ![i].status = IF @ = "blocked" THEN "active" ELSE "blocked"]
    ELSE cards

\* The loop of block_card over customer["cards"]: the first card with this id is blocked
BlockInList(cards, card_id) ==
    IF \E i \in 1..Len(cards) : cards[i].card_id = card_id
    THEN LET i == CHOOSE j \in 1..Len(cards) :
                    /\ cards[j].card_id = card_id
                    /\ \A k \in 1..(j - 1) : cards[k].card_id # card_id
         IN  [cards EXCEPT ![i].status = "blocked"]
    ELSE cards

\* block_card without the check of the owner's verification
block_card_unverified(args, ver, flags, d, t) ==
    IF ~_is_tool_enabled(flags, "block_card") THEN Outcome(StrResult("Error: Tool disabled."), ver, d)
    ELSE IF ~Has(d.cards, args.card_id) THEN Outcome(StrResult("Error: Card not found."), ver, d)
    ELSE LET customer_id == d.cards[args.card_id].customer_id
             d1 == [d EXCEPT !.cards[args.card_id].status = "blocked"]
             d2 == IF Has(d1.customers, customer_id)
                   THEN [d1 EXCEPT !.customers[customer_id].cards = BlockInList(@, args.card_id)]
                   ELSE d1
         IN  Outcome(StrResult("Card " \o args.card_id \o " has been blocked. Reason: "
                               \o args.reason), ver, d2)

\* block_card setting the other status: a blocked card becomes active again
block_card_toggle(args, ver, flags, d, t) ==
    IF ~_is_tool_enabled(flags, "block_card") THEN Outcome(StrResult("Error: Tool disabled."), ver, d)
    ELSE IF ~Has(d.cards, args.card_id) THEN Outcome(StrResult("Error: Card not found."), ver, d)
    ELSE LET customer_id == d.cards[args.card_id].customer_id IN
         IF ~_is_verified(ver, customer_id)
         THEN Outcome(StrResult("Error: Identity not verified."), ver, d)
         ELSE LET d1 == [d EXCEPT !.cards[args.card_id].status =
                                      IF @ = "blocked" THEN "active" ELSE "blocked"]
                  d2 == IF Has(d1.customers, customer_id)
                        THEN [d1 EXCEPT !.customers[customer_id].cards =
                                            BlockInList_flip(@, args.card_id)]
                        ELSE d1
              IN  Outcome(StrResult("Card " \o args.card_id \o " has been blocked. Reason: "
                                    \o args.reason), ver, d2)

\* @tool block_card(card_id, reason)
block_card(args, ver, flags, d, t) ==
    IF ~_is_tool_enabled(flags, "block_card") THEN Outcome(StrResult("Error: Tool disabled."), ver, d)
    ELSE IF ~Has(d.cards, args.card_id) THEN Outcome(StrResult("Error: Card not found."), ver, d)
    ELSE LET customer_id == d.cards[args.card_id].customer_id IN
         IF ~_is_verified(ver, customer_id)
         THEN Outcome(StrResult("Error: Identity not verified."), ver, d)
         ELSE LET d1 == [d EXCEPT !.cards[args.card_id].status = "blocked"]
                  d2 == IF Has(d1.customers, customer_id)
                        THEN [d1 EXCEPT !.customers[customer_id].cards =
                                            BlockInList(@, args.card_id)]
                        ELSE d1
              IN  Outcome(StrResult("Card " \o args.card_id \o " has been blocked. Reason: "
                                    \o args.reason), ver, d2)

\* @tool get_customer_cards(customer_id)
get_customer_cards(args, ver, flags, d, t) ==
    IF ~_is_tool_enabled(flags, "get_customer_cards") THEN Outcome(ErrorList("tool_disabled"), ver, d)
    ELSE IF ~_is_verified(ver, args.customer_id) THEN Outcome(ErrorList("identity_not_verified"), ver, d)
    ELSE IF ~Has(d.customers, args.customer_id) THEN Outcome(ErrorList("customer_not_found"), ver, d)
    ELSE Outcome(ListResult(d.customers[args.customer_id].cards), ver, d)

\* The list of periods left empty
Periods_none(statements) == <<>>

\* [s["period"] for s in statements]
Periods(statements) == [i \in 1..Len(statements) |-> statements[i].period]

\* @tool request_statement(customer_id, period)
request_statement(args, ver, flags, d, t) ==
    IF ~_is_tool_enabled(flags, "request_statement") THEN Outcome(ErrorDict("tool_disabled"), ver, d)
    ELSE IF ~_is_verified(ver, args.customer_id) THEN Outcome(ErrorDict("identity_not_verified"), ver, d)
    ELSE IF ~Has(d.customers, args.customer_id) THEN Outcome(ErrorDict("customer_not_found"), ver, d)
    ELSE LET sts == MOCK_STATIC[args.customer_id].statements IN
         IF \E i \in 1..Len(sts) : sts[i].period = args.period
         THEN LET s == sts[CHOOSE i \in 1..Len(sts) :
                             /\ sts[i].period = args.period
                             /\ \A k \in 1..(i - 1) : sts[k].period # args.period]
              IN  Outcome(DictResult("", [statement_id |-> s.statement_id, period |-> args.period,
                                          format |-> s.format, status |-> "ready"]), ver, d)
         ELSE Outcome(DictResult("statement_not_found",
                                 [available_periods |-> Periods(sts)]), ver, d)

\* @tool update_address(customer_id, new_address)
update_address(args, ver, flags, d, t) ==
    IF ~_is_tool_enabled(flags, "update_address") THEN Outcome(ErrorDict("tool_disabled"), ver, d)
    ELSE IF ~_is_verified(ver, args.customer_id) THEN Outcome(ErrorDict("identity_not_verified"), ver, d)
    ELSE IF ~Has(d.customers, args.customer_id) THEN Outcome(ErrorDict("customer_not_found"), ver, d)
    ELSE LET d1 == [d EXCEPT !.customers[args.customer_id].address = Strip(args.new_address)]
         IN  Outcome(DictResult("", [status |-> "updated",
                                     address |-> d1.customers[args.customer_id].address]), ver, d1)

\* MOCK_DB["disputes"][dispute_id] = record: a dict assignment, which overwrites
PutDispute(disputes, dispute_id, record) ==
    [k \in DOMAIN disputes \cup {dispute_id} |->
        IF k = dispute_id THEN record ELSE disputes[k]]

\* @tool report_cash_not_dispensed(customer_id, atm_id, amount, date)
report_cash_not_dispensed(args, ver, flags, d, t) ==
    IF ~_is_tool_enabled(flags, "report_cash_not_dispensed") THEN Outcome(ErrorDict("tool_disabled"), ver, d)
    ELSE IF ~_is_verified(ver, args.customer_id) THEN Outcome(ErrorDict("identity_not_verified"), ver, d)
    ELSE IF ~Has(d.customers, args.customer_id) THEN Outcome(ErrorDict("customer_not_found"), ver, d)
    ELSE LET dispute_id == t
             d1 == [d EXCEPT !.disputes =
                        PutDispute(@, dispute_id,
                                   [customer_id |-> args.customer_id,
                                    type |-> "cash_not_dispensed",
                                    atm_id |-> args.atm_id,
                                    amount |-> args.amount,
                                    date |-> args.date,
                                    status |-> "submitted"])]
         IN  Outcome(DictResult("", [dispute_id |-> dispute_id, status |-> "submitted"]), ver, d1)

\* The tool node: the named tool applied to the call's arguments
RunTool(name, args, ver, flags, d, t) ==
    CASE name = "verify_identity" -> verify_identity(args, ver, flags, d, t)
      [] name = "get_verification_status" -> get_verification_status(args, ver, flags, d, t)
      [] name = "get_account_balance" -> get_account_balance(args, ver, flags, d, t)
      [] name = "get_customer_profile" -> get_customer_profile(args, ver, flags, d, t)
      [] name = "get_recent_transactions" -> get_recent_transactions(args, ver, flags, d, t)
      [] name = "block_card" -> block_card(args, ver, flags, d, t)
      [] name = "get_customer_cards" -> get_customer_cards(args, ver, flags, d, t)
      [] name = "request_statement" -> request_statement(args, ver, flags, d, t)
      [] name = "update_address" -> update_address(args, ver, flags, d, t)
      [] name = "report_cash_not_dispensed" -> report_cash_not_dispensed(args, ver, flags, d, t)


----------------------------------------------------------------------------
(* The tool gateway on its own: any caller of tools.py, any arguments *)

\* Customer ids callers give: the customer of MOCK_DB and one it does not hold
CustomerIds == {"user123", "John123"}

WrongPin == <<"9", "9", "9", "9">>

\* The arguments a caller may give each tool
ArgsOf(name) ==
    CASE name = "verify_identity" ->
            [customer_id : CustomerIds,
             pin : {StoredPin, WrongPin, <<"1", "2", "3">>,
                    <<"1", "2", "3", "4", "5", "6", "7">>}]
      [] name = "get_recent_transactions" ->
            [customer_id : CustomerIds, count : {-5, 0, 1, 2, 3, 20, 21, 25}]
      [] name = "block_card" ->
            [card_id : {"card_123", "card_999"}, reason : {"lost"}]
      [] name = "request_statement" ->
            [customer_id : CustomerIds, period : {"2025-12", "2020-01"}]
      [] name = "update_address" ->
            [customer_id : CustomerIds, new_address : {<<" ", "N", " ">>}]
      [] name = "report_cash_not_dispensed" ->
            [customer_id : CustomerIds, atm_id : {"ATM001"}, amount : {100, 200},
             date : {"2026-01-20"}]
      [] OTHER -> [customer_id : CustomerIds]

\* The customer a call is about: its customer_id, or for block_card the owner of the card
Subject(name, args, d) ==
    IF name = "block_card"
    THEN IF Has(d.cards, args.card_id) THEN d.cards[args.card_id].customer_id ELSE ""
    ELSE args.customer_id

\* Values of _TOOL_FLAGS: no entry, one tool's entry disabled, enabled or without the key
FlagInputs ==
    {<<>>}
    \cup {[n \in {name} |-> [enabled |-> FALSE]] : name \in ToolNames}
    \cup {[n \in {"verify_identity"} |-> [enabled |-> TRUE]],
          [n \in {"block_card"} |-> NoEnabledKey]}

NoCall == [name |-> "", args |-> <<>>, result |-> <<>>]

\* One tool is called; the caller sees its result, and knows the store as it was
ToolCall(name, args) ==
    LET out == RunTool(name, args, verified, toolFlags, db, clock) IN
    /\ verified' = out.verified
    /\ db' = out.db
    /\ last' = [name |-> name, args |-> args, result |-> out.result, before |-> db]
    /\ UNCHANGED <<toolFlags, clock>>
    /\ UNCHANGED sessVars

\* set_tool_flags(tool_flags)
SetToolFlags(tool_flags) ==
    /\ toolFlags' = tool_flags
    /\ last' = NoCall
    /\ UNCHANGED <<verified, db, clock>>
    /\ UNCHANGED sessVars

\* set_verification_state(customer_id, is_verified)
SetVerificationState(customer_id, is_verified) ==
    /\ verified' = set_verification_state(verified, customer_id, is_verified)
    /\ last' = NoCall
    /\ UNCHANGED <<toolFlags, db, clock>>
    /\ UNCHANGED sessVars

\* reset_verification(customer_id)
ResetVerification(customer_id) ==
    /\ verified' = reset_verification(verified, customer_id)
    /\ last' = NoCall
    /\ UNCHANGED <<toolFlags, db, clock>>
    /\ UNCHANGED sessVars

\* A second passes
Tick ==
    /\ clock < MaxClock
    /\ clock' = clock + 1
    /\ last' = NoCall
    /\ UNCHANGED <<verified, toolFlags, db>>
    /\ UNCHANGED sessVars

NoSessions ==
    /\ USE_DB = FALSE
    /\ sessions = <<>>
    /\ turns = <<>>
    /\ configs = <<>>
    /\ reqs = <<>>
    /\ ghost = <<>>

InitTools ==
    /\ verified = {}
    /\ toolFlags = <<>>
    /\ db = MOCK_DB
    /\ clock = 0
    /\ last = NoCall
    /\ NoSessions

NextTools ==
    \/ \E name \in ToolNames : \E args \in ArgsOf(name) : ToolCall(name, args)
    \/ \E tool_flags \in FlagInputs : SetToolFlags(tool_flags)
    \/ \E c \in CustomerIds : \E b \in BOOLEAN : SetVerificationState(c, b)
    \/ \E c \in CustomerIds : ResetVerification(c)
    \/ Tick

SpecTools == InitTools /\ [][NextTools]_vars


----------------------------------------------------------------------------
(* verify_identity_raw on spoken input: customer ids and PINs as the         *)
(* speech-to-text step may deliver them                                      *)

\* The longest digit string tried as a PIN
MaxPinDigits == 7

Separators == {" ", ",", ".", "-"}

CountUp == <<"1", "2", "3", "4", "5", "6", "7", "8", "9">>

\* "1", "12", "123", ... and the same with the last digit wrong
DigitStrings ==
    {SubSeq(CountUp, 1, n) : n \in 0..MaxPinDigits}
    \cup {SubSeq(CountUp, 1, n - 1) \o <<"0">> : n \in 1..MaxPinDigits}

RECURSIVE Interleave(_, _)
\* The digits with sep between each two
Interleave(digits, sep) ==
    IF Len(digits) <= 1 THEN digits
    ELSE <<Head(digits), sep>> \o Interleave(Tail(digits), sep)

\* A digit string as spoken: as it is, padded with blanks, or with a separator between the digits
PinInputs ==
    DigitStrings
    \cup {<<" ">> \o digits \o <<" ">> : digits \in DigitStrings}
    \cup {Interleave(digits, sep) : digits \in DigitStrings, sep \in Separators}

\* Customer ids as spoken: the stored id, in other letter case, with separators,
\* with a character no identifier has, and ids of no customer
CustomerIdInputs ==
    {<<"u", "s", "e", "r", "1", "2", "3">>,
     <<"U", "S", "E", "R", "1", "2", "3">>,
     <<"U", "s", "e", "r", "1", "2", "3">>,
     <<"u", "s", "e", "r", " ", "1", "2", "3">>,
     <<"u", "s", "e", "r", "-", "1", "2", "3">>,
     <<"u", "s", "e", "r", ",", " ", "1", "2", "3">>,
     <<"u", "s", "e", "r", ".", "1", "2", "3">>,
     <<"u", "s", "e", "r", "@", "1", "2", "3">>,
     <<"J", "o", "h", "n", "1", "2", "3">>,
     <<"u", "s", "e", "r", "1", "2">>,
     <<>>}

\* verify_identity_raw(customer_id, pin) is called
VerifyRaw(customer_id, pin) ==
    LET r == verify_identity_raw(Join(customer_id), pin, verified, db) IN
    /\ verified' = r.verified
    /\ last' = [name |-> "verify_identity_raw",
                args |-> [customer_id |-> customer_id, pin |-> pin],
                result |-> BoolResult(r.ok)]
    /\ UNCHANGED <<toolFlags, db, clock>>
    /\ UNCHANGED sessVars

InitVerify == InitTools

NextVerify ==
    \/ \E customer_id \in CustomerIdInputs : \E pin \in PinInputs : VerifyRaw(customer_id, pin)
    \/ \E c \in CustomerIds : ResetVerification(c)

SpecVerify == InitVerify /\ [][NextVerify]_vars


----------------------------------------------------------------------------
(* Properties of the tool gateway *)

\* The result is the tool's identity_not_verified error
IsNotVerifiedError(result) ==
    CASE result.shape = "dict" -> result.error = "identity_not_verified"
      [] result.shape = "list" ->
            \E i \in 1..Len(result.items) :
                /\ Has(result.items[i], "error")
                /\ result.items[i].error = "identity_not_verified"
      [] result.shape = "str" -> result.text = "Error: Identity not verified."
      [] OTHER -> FALSE

\* The result is the tool's tool_disabled error
IsDisabledError(result) ==
    CASE result.shape = "dict" -> result.error = "tool_disabled"
      [] result.shape = "list" ->
            \E i \in 1..Len(result.items) :
                /\ Has(result.items[i], "error")
                /\ result.items[i].error = "tool_disabled"
      [] result.shape = "str" -> result.text = "Error: Tool disabled."
      [] OTHER -> FALSE

\* The flag of the tool is disabled in flags
Disabled(flags, name) ==
    /\ name \in DOMAIN flags
    /\ "enabled" \in DOMAIN flags[name]
    /\ flags[name].enabled = FALSE

\* This step called sensitive tool `name` for a customer who was not verified
UnverifiedCall(name) ==
    /\ last' # NoCall
    /\ last'.name = name
    /\ name \in SensitiveTools
    /\ Subject(name, last'.args, db) # ""
    /\ Subject(name, last'.args, db) \notin verified

\* C1, as stated: every sensitive tool called for a customer who is not verified
\* returns an identity_not_verified error and leaves the data store unchanged.
C1_Original ==
    [][\A name \in SensitiveTools :
          UnverifiedCall(name) => IsNotVerifiedError(last'.result) /\ db' = db]_vars

\* C1, amended: every sensitive tool called for a customer who is not verified
\* leaves the data store unchanged, and returns an identity_not_verified error
\* unless its flag is disabled, in which case it returns the tool_disabled error.
C1_UnverifiedRefused ==
    [][\A name \in SensitiveTools :
          UnverifiedCall(name) =>
              /\ db' = db
              /\ IF Disabled(toolFlags, name)
                 THEN IsDisabledError(last'.result)
                 ELSE IsNotVerifiedError(last'.result)]_vars

\* C1's case: with every flag enabled, a dispute filed for the unverified customer
\* of MOCK_DB was refused, after the customer's card had been blocked while verified
C1_Witness ==
    /\ last.name = "report_cash_not_dispensed"
    /\ last.args.customer_id = "user123"
    /\ last.result = ErrorDict("identity_not_verified")
    /\ toolFlags = <<>>
    /\ db.cards["card_123"].status = "blocked"
    /\ db.disputes = <<>>

\* C3, as stated: every tool whose flag is disabled returns a tool_disabled error
\* and has no side effect, whether or not the customer is verified.
C3_Original ==
    [][\A name \in ToolNames :
          (last' # NoCall /\ last'.name = name /\ Disabled(toolFlags, name)) =>
              /\ IsDisabledError(last'.result)
              /\ db' = db
              /\ verified' = verified]_vars

\* The text block_card returns when it has blocked the card
Blocked(card_id, reason) == StrResult("Card " \o card_id \o " has been blocked. Reason: " \o reason)

\* The card is blocked in the card table and in its owner's card list
BlockedInBothPlaces(d, card_id) ==
    /\ d.cards[card_id].status = "blocked"
    /\ LET owner == d.cards[card_id].customer_id
       IN  \A i \in 1..Len(d.customers[owner].cards) :
               d.customers[owner].cards[i].card_id = card_id =>
                   d.customers[owner].cards[i].status = "blocked"

\* This step called block_card, enabled, on a blocked card of a verified owner
BlockAgain ==
    /\ last' # NoCall
    /\ last'.name = "block_card"
    /\ _is_tool_enabled(toolFlags, "block_card")
    /\ Has(db.cards, last'.args.card_id)
    /\ db.cards[last'.args.card_id].status = "blocked"
    /\ db.cards[last'.args.card_id].customer_id \in verified

\* C11: block_card on an already blocked card of a verified owner returns the
\* success text and leaves the data store as it was, the card blocked in the
\* card table and in the owner's card list.
C11_BlockIdempotent ==
    [][BlockAgain =>
          /\ last'.result = Blocked(last'.args.card_id, last'.args.reason)
          /\ db' = db
          /\ BlockedInBothPlaces(db', last'.args.card_id)]_vars

\* C11's case: the card of the verified customer was blocked when block_card
\* was called on it, and the call returned the success text
C11_Witness ==
    /\ last.name = "block_card"
    /\ last.args.card_id = "card_123"
    /\ last.before.cards["card_123"].status = "blocked"
    /\ "user123" \in verified
    /\ last.result = Blocked("card_123", "lost")
    /\ db = last.before

\* This step called request_statement, enabled, for a verified customer of the store
StatementRequested ==
    /\ last' # NoCall
    /\ last'.name = "request_statement"
    /\ _is_tool_enabled(toolFlags, "request_statement")
    /\ last'.args.customer_id \in verified
    /\ Has(db.customers, last'.args.customer_id)

\* C20: request_statement for a verified customer of the store returns status
\* ready with the id and format of the statement if and only if the period is one
\* of the customer's statement periods; otherwise it returns statement_not_found
\* with available_periods the list of those periods; the store is unchanged.
C20_StatementContract ==
    [][StatementRequested =>
          LET statements == MOCK_STATIC[last'.args.customer_id].statements
              period == last'.args.period
              result == last'.result
          IN  /\ db' = db
              /\ IF \E i \in 1..Len(statements) : statements[i].period = period
                 THEN /\ result.error = ""
                      /\ result.data.status = "ready"
                      /\ result.data.period = period
                      /\ \E i \in 1..Len(statements) :
                            /\ statements[i].period = period
                            /\ result.data.statement_id = statements[i].statement_id
                            /\ result.data.format = statements[i].format
                 ELSE /\ result.error = "statement_not_found"
                      /\ Len(result.data.available_periods) = Len(statements)
                      /\ \A i \in 1..Len(statements) :
                            result.data.available_periods[i] = statements[i].period]_vars

\* C20's case: the verified customer asked for a period of no statement and was
\* told the two periods there are
C20_Witness ==
    /\ last.name = "request_statement"
    /\ last.args = [customer_id |-> "user123", period |-> "2020-01"]
    /\ "user123" \in verified
    /\ last.result.error = "statement_not_found"
    /\ last.result.data.available_periods = <<"2025-12", "2025-11">>
    /\ db = last.before

\* This step called get_recent_transactions, enabled, for a verified customer of the store
TransactionsRequested ==
    /\ last' # NoCall
    /\ last'.name = "get_recent_transactions"
    /\ _is_tool_enabled(toolFlags, "get_recent_transactions")
    /\ last'.args.customer_id \in verified
    /\ Has(db.customers, last'.args.customer_id)

\* The count clamped into [1, 20]
Clamped(count) == IF count < 1 THEN 1 ELSE IF count > 20 THEN 20 ELSE count

\* C21: get_recent_transactions for a verified customer of the store returns, for
\* every integer count, the first min(count clamped into [1, 20], number stored)
\* transactions in stored order: at least one when there are any, at most 20.
C21_CountClamped ==
    [][TransactionsRequested =>
          LET stored == MOCK_STATIC[last'.args.customer_id].transactions
              wanted == Clamped(last'.args.count)
              items == last'.result.items
          IN  /\ last'.result.shape = "list"
              /\ Len(items) = IF wanted < Len(stored) THEN wanted ELSE Len(stored)
              /\ \A i \in 1..Len(items) : items[i] = stored[i]
              /\ stored # <<>> => items # <<>>
              /\ Len(items) <= 20
              /\ db' = db]_vars

\* C21's case: the verified customer asked for -5 transactions and got the most
\* recent one
C21_Witness ==
    /\ last.name = "get_recent_transactions"
    /\ last.args = [customer_id |-> "user123", count |-> -5]
    /\ "user123" \in verified
    /\ last.result = ListResult(<<MOCK_STATIC["user123"].transactions[1]>>)

\* The membership of every customer but customer_id is the same after the step
OthersKept(customer_id) ==
    \A other \in (verified \cup verified' \cup CustomerIds) \ {customer_id} :
        _is_verified(verified', other) <=> _is_verified(verified, other)

\* C25: after hydrate(c, b) is_verified(c) equals b, after reset(c) it is false,
\* and both leave the membership of every other customer as it was;
\* get_verification_status reports the membership and changes no state.
C25_Membership ==
    [][/\ \A c \in CustomerIds : \A b \in BOOLEAN :
             SetVerificationState(c, b) =>
                 /\ _is_verified(verified', c) <=> b
                 /\ OthersKept(c)
       /\ \A c \in CustomerIds :
             ResetVerification(c) =>
                 /\ ~_is_verified(verified', c)
                 /\ OthersKept(c)
       /\ (last' # NoCall /\ last'.name = "get_verification_status") =>
             /\ UNCHANGED <<verified, toolFlags, db>>
             /\ _is_tool_enabled(toolFlags, "get_verification_status") =>
                    last'.result.data.verified = _is_verified(verified, last'.args.customer_id)]_vars

\* C25's case: "John123" was hydrated as verified, "user123" was verified (its
\* card got blocked) and then reset, and get_verification_status reports
\* "John123" as verified still
C25_Witness ==
    /\ last.name = "get_verification_status"
    /\ last.args.customer_id = "John123"
    /\ last.result.data.verified = TRUE
    /\ verified = {"John123"}
    /\ db.cards["card_123"].status = "blocked"

\* The result is the tool's error for a customer or card the store does not hold
IsNotFoundError(result) ==
    CASE result.shape = "dict" -> result.error = "customer_not_found"
      [] result.shape = "list" ->
            \E i \in 1..Len(result.items) :
                /\ Has(result.items[i], "error")
                /\ result.items[i].error = "customer_not_found"
      [] result.shape = "str" -> result.text = "Error: Card not found."
      [] OTHER -> FALSE

\* C30, as stated: every tool operation, block_card included, checks in the
\* order flag, verification, existence: with the flag disabled it returns the
\* tool_disabled error; with the flag enabled and the resolved customer not
\* verified it returns the identity_not_verified error, whether or not the
\* customer or card exists; a not-found error goes to a verified caller only.
C30_Original ==
    [][\A name \in SensitiveTools :
          (last' # NoCall /\ last'.name = name) =>
              LET subject == Subject(name, last'.args, db) IN
              /\ ~_is_tool_enabled(toolFlags, name) => IsDisabledError(last'.result)
              /\ (_is_tool_enabled(toolFlags, name) /\ ~_is_verified(verified, subject)) =>
                     IsNotVerifiedError(last'.result)
              /\ IsNotFoundError(last'.result) =>
                     _is_tool_enabled(toolFlags, name) /\ _is_verified(verified, subject)]_vars

----------------------------------------------------------------------------
(* Properties of verify_identity_raw *)

\* normalize_pin of the specification: the digits of the spoken PIN
RECURSIVE NormalizePin(_)
NormalizePin(raw) ==
    IF raw = <<>> THEN <<>>
    ELSE IF Head(raw) \in Digits THEN <<Head(raw)>> \o NormalizePin(Tail(raw))
    ELSE NormalizePin(Tail(raw))

\* The identifier alphabet: letters and digits
IdentifierChars == Range(LowerLetters) \cup Range(UpperLetters) \cup Digits

RECURSIVE RemoveSeparators(_)
RemoveSeparators(raw) ==
    IF raw = <<>> THEN <<>>
    ELSE IF Head(raw) \in Separators THEN RemoveSeparators(Tail(raw))
    ELSE <<Head(raw)>> \o RemoveSeparators(Tail(raw))

\* normalize_customer_id of the specification: the id without separators, or
\* empty when a character outside the identifier alphabet remains
NormalizeCustomerId(raw) ==
    LET rest == RemoveSeparators(raw)
    IN  IF \A i \in 1..Len(rest) : rest[i] \in IdentifierChars THEN rest ELSE <<>>

\* The stored id a spoken id stands for, if any: equal up to case and separators
StandsFor(raw, stored) ==
    /\ NormalizeCustomerId(raw) # <<>>
    /\ Join(Lower(NormalizeCustomerId(raw))) = stored

\* C5: verify returns false for an unknown customer; it returns true only if the
\* PIN, normalized, has 4 to 6 digits and is the stored PIN; when it returns true
\* the customer is in the VerifiedSet afterwards, when it returns false the
\* VerifiedSet is as it was.
C5_VerifyContract ==
    [][(last' # NoCall /\ last'.name = "verify_identity_raw") =>
          LET cid == Join(last'.args.customer_id)
              pin == last'.args.pin
              ok == last'.result.ok
          IN  /\ ~Has(MOCK_DB.customers, cid) => ~ok
              /\ ok => /\ Len(NormalizePin(pin)) \in 4..6
                       /\ NormalizePin(pin) = MOCK_STATIC[cid].pin
                       /\ cid \in verified'
              /\ ~ok => verified' = verified]_vars

\* C5's case: the stored customer was verified with the stored PIN, padded with blanks
C5_Witness ==
    /\ last.name = "verify_identity_raw"
    /\ last.args.pin = <<" ", "1", "2", "3", "4", " ">>
    /\ last.result.ok
    /\ "user123" \in verified

\* C6, as stated: for the known customer, a spoken PIN whose digits are the
\* stored PIN verifies, with separators between the digits as well; a spoken PIN
\* with fewer than 4 or more than 6 digits does not.
C6_Original ==
    (last.name = "verify_identity_raw" /\ Join(last.args.customer_id) = "user123") =>
        /\ NormalizePin(last.args.pin) = StoredPin => last.result.ok
        /\ Len(NormalizePin(last.args.pin)) \notin 4..6 => ~last.result.ok

\* C7, as stated: with the correct PIN, a spoken id that differs from the stored
\* id only by letter case or separators verifies; a spoken id with a character
\* outside the identifier alphabet does not.
C7_Original ==
    (last.name = "verify_identity_raw" /\ last.args.pin = StoredPin) =>
        /\ StandsFor(last.args.customer_id, "user123") => last.result.ok
        /\ NormalizeCustomerId(last.args.customer_id) = <<>> => ~last.result.ok

----------------------------------------------------------------------------
(* main.py: texts, messages and the helpers of call_turn *)

\* Python's None where a text may stand
None == <<"None">>

\* bool(text) of a text that may be None
Truthy(text) == text # None /\ text # <<>>

\* "Hello, welcome to Bank ABC. How can I help you today?", abbreviated
Greeting == <<"H", "e", "l", "l", "o">>

\* "Thanks for calling Bank ABC. Goodbye.", abbreviated
Closing == <<"G", "o", "o", "d", "b", "y", "e">>

\* "I can help with that. What's your Customer ID?", abbreviated
AskCustomerId == <<"I", "D", "?">>

\* "I can help with that. Please share your 4-6 digit PIN to verify your identity.", abbreviated
AskPin == <<"P", "I", "N", "?">>

\* The mask _sanitize_tool_calls puts in place of a pin
Mask == <<"*", "*", "*">>

\* sub in s
Contains(sub, s) ==
    \E i \in 0..(Len(s) - Len(sub)) : SubSeq(s, i + 1, i + Len(sub)) = sub

\* re.search(r"\d", s)
HasDigit(s) == \E i \in 1..Len(s) : s[i] \in Digits

\* re.search(r"\$\s*\d", s)
HasAmount(s) ==
    \E i \in 1..Len(s) : \E j \in (i + 1)..Len(s) :
        /\ s[i] = "$"
        /\ s[j] \in Digits
        /\ \A k \in (i + 1)..(j - 1) : s[k] \in Whitespace

\* HumanMessage(content), AIMessage(content, tool_calls), ToolMessage(...)
HumanMessage(content) == [type |-> "human", content |-> content]
AIMessage(content, tool_calls) == [type |-> "ai", content |-> content, tool_calls |-> tool_calls]
ToolMessage(name, content, tool_call_id) ==
    [type |-> "tool", name |-> name, content |-> content, tool_call_id |-> tool_call_id]

\* _sanitize_agent_text: the texts of the model hold no <function=...> markup and
\* no runs of blanks, so what is left of it is the strip()
_sanitize_agent_text(text) == Strip(text)

\* _sanitize_tool_calls without the masking
_sanitize_tool_calls_unmasked(tool_calls) == tool_calls

\* _sanitize_tool_calls: the calls with each verify_identity pin replaced by the mask
_sanitize_tool_calls(tool_calls) ==
    [i \in 1..Len(tool_calls) |->
        IF tool_calls[i].name = "verify_identity" /\ Has(tool_calls[i].args, "pin")
        THEN [tool_calls[i] EXCEPT !.args.pin = Mask]
        ELSE tool_calls[i]]

\* The positions of the verify_identity calls in tool_calls
VerifyCallPositions(tool_calls) ==
    {i \in 1..Len(tool_calls) : tool_calls[i].name = "verify_identity"}

Min(S) == CHOOSE x \in S : \A y \in S : x <= y
Max(S) == CHOOSE x \in S : \A y \in S : x >= y

\* _extract_verify_success(tool_calls, messages); None is the empty id
_extract_verify_success(tool_calls, messages) ==
    LET calls == VerifyCallPositions(tool_calls)
        attempts == Cardinality(calls)
        oks == {i \in 1..Len(messages) :
                    /\ messages[i].type = "tool"
                    /\ messages[i].name = "verify_identity"
                    /\ messages[i].content.shape = "bool"
                    /\ messages[i].content.ok}
    IN  IF oks = {}
        THEN [verified_customer_id |-> "", attempts |-> attempts, verified |-> FALSE]
        ELSE LET m == messages[Min(oks)]
                 same == {i \in calls : tool_calls[i].id = m.tool_call_id}
                 by_id == IF same = {} THEN "" ELSE tool_calls[Max(same)].args.customer_id
                 named == {i \in calls : tool_calls[i].args.customer_id # ""}
                 fallback == IF named = {} THEN "" ELSE tool_calls[Max(named)].args.customer_id
             IN  [verified_customer_id |-> IF by_id # "" THEN by_id ELSE fallback,
                  attempts |-> attempts,
                  verified |-> TRUE]

\* A tool message without content (content is None)
NoContent == [shape |-> "none"]

\* The markers of failure _tool_succeeded looks for in a text that is not JSON
FailureMarkers ==
    {<<"i", "d", "e", "n", "t", "i", "t", "y", "_", "n", "o", "t", "_", "v", "e", "r", "i", "f", "i", "e", "d">>,
     <<"c", "u", "s", "t", "o", "m", "e", "r", "_", "n", "o", "t", "_", "f", "o", "u", "n", "d">>,
     <<"t", "o", "o", "l", "_", "d", "i", "s", "a", "b", "l", "e", "d">>}

StartsWith(prefix, s) == Len(s) >= Len(prefix) /\ SubSeq(s, 1, Len(prefix)) = prefix

\* _tool_succeeded, the body of the loop with every result a success
ContentSucceeded_lenient(content) == content.shape # "none"

\* _tool_succeeded, the body of the loop for a message of the tool that returns:
\* a dict or a list is what json.loads yields of a dict or list result, a text of
\* the tools is not JSON and is judged by its words
ContentSucceeded(content) ==
    CASE content.shape = "none" -> FALSE
      [] content.shape = "dict" -> content.error = ""
      [] content.shape = "list" ->
            \A i \in 1..Len(content.items) : ~Has(content.items[i], "error")
      [] content.shape = "str" ->
            LET s == Strip(content.text)
                lowered == Lower(s)
            IN  /\ s # <<>>
                /\ \A marker \in FailureMarkers : ~Contains(marker, lowered)
                /\ ~StartsWith(<<"e", "r", "r", "o", "r">>, lowered)

\* _tool_succeeded(messages, tool_name): the first message of that tool on which
\* the loop returns decides; on a JSON scalar ("true" of a bool result) the loop
\* goes on to the next message
_tool_succeeded(messages, tool_name) ==
    LET ms == {i \in 1..Len(messages) :
                  /\ messages[i].type = "tool"
                  /\ messages[i].name = tool_name
                  /\ messages[i].content.shape # "bool"}
    IN  IF ms = {} THEN FALSE ELSE ContentSucceeded(messages[Min(ms)].content)

\* _verification_prompt(customer_id)
_verification_prompt(customer_id) ==
    IF customer_id = "" \/ customer_id = "guest" THEN AskCustomerId ELSE AskPin

reveals_balance(text) ==
    HasAmount(text) \/ (Contains(<<"b", "a", "l", "a", "n", "c", "e">>, Lower(text)) /\ HasDigit(text))

reveals_contact(text) ==
    \/ Contains(<<"e", "m", "a", "i", "l">>, Lower(text)) /\ Contains(<<"@">>, text)
    \/ Contains(<<"p", "h", "o", "n", "e">>, Lower(text)) /\ HasDigit(text)
    \/ Contains(<<"y", "o", "u", "r", " ", "n", "a", "m", "e", " ", "i", "s">>, Lower(text))

\* _apply_sensitive_guardrail(agent_text, messages, customer_id)
_apply_sensitive_guardrail(agent_text, messages, customer_id) ==
    LET text == Strip(agent_text) IN
    IF text = <<>> THEN text
    ELSE IF reveals_balance(text) /\ ~_tool_succeeded(messages, "get_account_balance")
    THEN _verification_prompt(customer_id)
    ELSE IF reveals_contact(text) /\ ~_tool_succeeded(messages, "get_customer_profile")
    THEN _verification_prompt(customer_id)
    ELSE text

\* The tool calls of all AI messages, in order (call_turn, the loop over result["messages"])
RECURSIVE AllToolCalls(_)
AllToolCalls(messages) ==
    IF messages = <<>> THEN <<>>
    ELSE (IF Head(messages).type = "ai" THEN Head(messages).tool_calls ELSE <<>>)
         \o AllToolCalls(Tail(messages))

\* agent.py, the graph chatbot -> tools -> chatbot: the model asks for the calls of
\* script one after the other and the tool node runs each; base messages precede
RECURSIVE RunScript(_, _, _, _, _, _)
RunScript(script, base, ver, flags, d, t) ==
    IF script = <<>> THEN [messages |-> <<>>, verified |-> ver, db |-> d]
    ELSE LET call == Head(script)
             id == base + 1
             out == RunTool(call.name, call.args, ver, flags, d, t)
             rest == RunScript(Tail(script), base + 2, out.verified, flags, out.db, t)
         IN  [messages |-> <<AIMessage(<<>>, <<[name |-> call.name, args |-> call.args,
                                                id |-> id]>>),
                             ToolMessage(call.name, out.result, id)>> \o rest.messages,
              verified |-> rest.verified,
              db |-> rest.db]

----------------------------------------------------------------------------
(* main.py and session_repo.py: sessions, turns and the requests in flight *)

\* Sessions created, requests handled at a time, turns accepted and calls ended
\* over a run
MaxSessions == 2
MaxReqs == 2
MaxTurns == 2
MaxEnds == 1

\* len(audio_content) < 1024
MinAudioSize == 1024

MAX_FILE_SIZE == 10 * 1024 * 1024

DEFAULT_ENV_KEY == "dev"

Slots == 1..MaxReqs

\* A slot that handles no request
Idle == [op |-> "idle", pc |-> "idle", session_id |-> 0]

\* _new_session / create_session: the session as created.  env_key is a column of
\* call_sessions only, messages a key of the in-memory session only.
NewSession(customer_id, env_key) ==
    [customer_id |-> customer_id,
     env_key |-> env_key,
     ended |-> FALSE,
     verified_identity |-> FALSE,
     verification_attempts |-> 0,
     messages |-> <<>>]

\* A turn record: a row of call_turns, an item of session["turns"]
TurnRecord(ts, user_transcript, agent_response, tool_calls) ==
    [ts |-> ts, user_transcript |-> user_transcript, agent_response |-> agent_response,
     tool_calls |-> tool_calls]

\* config_repo.ensure_env_config(env_key): the configs table afterwards
ensure_env_config(cfgs, env_key) ==
    IF Has(cfgs, env_key) THEN cfgs ELSE cfgs @@ (env_key :> [tool_flags |-> <<>>])

RECURSIVE InsertByTs(_, _)
InsertByTs(sorted, t) ==
    IF sorted = <<>> THEN <<t>>
    ELSE IF Head(sorted).ts <= t.ts THEN <<Head(sorted)>> \o InsertByTs(Tail(sorted), t)
    ELSE <<t>> \o sorted

RECURSIVE SortByTs(_)
SortByTs(rows) ==
    IF rows = <<>> THEN <<>>
    ELSE InsertByTs(SortByTs(SubSeq(rows, 1, Len(rows) - 1)), rows[Len(rows)])

\* session_repo.get_turns: the rows of a session, ordered by ts
get_turns(rows) == SortByTs(rows)

\* call_turn with USE_DB: the history rebuilt from the turn rows
RECURSIVE HistoryMessages(_)
HistoryMessages(rows) ==
    IF rows = <<>> THEN <<>>
    ELSE (IF Truthy(Head(rows).user_transcript)
          THEN <<HumanMessage(Head(rows).user_transcript)>> ELSE <<>>)
         \o (IF Truthy(Head(rows).agent_response)
             THEN <<AIMessage(Head(rows).agent_response, <<>>)>> ELSE <<>>)
         \o HistoryMessages(Tail(rows))

\* _is_rate_limited_error(exc), on the text of the exception
_is_rate_limited_error(exc) ==
    \/ Contains(<<"e", "r", "r", "o", "r", " ", "c", "o", "d", "e", ":", " ", "4", "2", "9">>, Lower(exc))
    \/ Contains(<<"r", "a", "t", "e", "_", "l", "i", "m", "i", "t", "_", "e", "x", "c", "e", "e", "d", "e", "d">>, Lower(exc))
    \/ Contains(<<"r", "a", "t", "e", " ", "l", "i", "m", "i", "t", " ", "r", "e", "a", "c", "h", "e", "d">>, Lower(exc))

\* The digits in order: the digit of value n is DigitChars[n + 1]
DigitChars == <<"0", "1", "2", "3", "4", "5", "6", "7", "8", "9">>

RECURSIVE IntOf(_)
\* int(digits) of a string of digits (0 for the empty string, where int is not called)
IntOf(digits) ==
    IF digits = <<>> THEN 0
    ELSE IntOf(SubSeq(digits, 1, Len(digits) - 1)) * 10
         + (CHOOSE n \in 0..9 : DigitChars[n + 1] = digits[Len(digits)])

RECURSIVE Str(_)
\* str(n) of a natural number
Str(n) == IF n < 10 THEN <<DigitChars[n + 1]>> ELSE Str(n \div 10) \o <<DigitChars[(n % 10) + 1]>>

RECURSIVE RunEnd(_, _, _)
\* Where the longest run of characters of class that starts at s[i] ends: the
\* position after it (i when s[i] is not of the class)
RunEnd(s, i, class) ==
    IF i <= Len(s) /\ s[i] \in class THEN RunEnd(s, i + 1, class) ELSE i

\* _extract_retry_after_seconds(exc): None, an int, or the ValueError of float().
\* The pattern is r"try again in\s+(\d+)m([\d.]+)s", ignoring case; each of its
\* runs is followed by a character outside the run's class, so the leftmost match
\* takes the longest runs.  The fractions of the model are short, so that the
\* float sum truncates as the decimal number does.
_extract_retry_after_seconds(exc) ==
    LET low == Lower(exc)
        phrase == <<"t", "r", "y", " ", "a", "g", "a", "i", "n", " ", "i", "n">>
        AfterPhrase(i) == i + Len(phrase)
        Minutes(i) == RunEnd(exc, AfterPhrase(i), Whitespace)
        LetterM(i) == RunEnd(exc, Minutes(i), Digits)
        LetterS(i) == RunEnd(exc, LetterM(i) + 1, Digits \cup {"."})
        Matches(i) ==
            /\ AfterPhrase(i) - 1 <= Len(exc)
            /\ SubSeq(low, i, AfterPhrase(i) - 1) = phrase
            /\ Minutes(i) > AfterPhrase(i)
            /\ LetterM(i) > Minutes(i)
            /\ LetterM(i) <= Len(exc) /\ low[LetterM(i)] = "m"
            /\ LetterS(i) > LetterM(i) + 1
            /\ LetterS(i) <= Len(exc) /\ low[LetterS(i)] = "s"
        starts == {i \in 1..Len(exc) : Matches(i)}
    IN  IF starts = {} THEN [kind |-> "None"]
        ELSE LET i == Min(starts)
                 minutes == IntOf(SubSeq(exc, Minutes(i), LetterM(i) - 1))
                 group2 == SubSeq(exc, LetterM(i) + 1, LetterS(i) - 1)
                 points == {k \in 1..Len(group2) : group2[k] = "."}
                 whole == IF points = {} THEN group2 ELSE SubSeq(group2, 1, Min(points) - 1)
             IN  IF Cardinality(points) > 1 \/ Cardinality(points) = Len(group2)
                 THEN [kind |-> "ValueError"]
                 ELSE [kind |-> "int", value |-> minutes * 60 + IntOf(whole)]

HasFreeSlot == \E r \in Slots : reqs[r].op = "idle"

\* The slot the next request gets
FreeSlot == CHOOSE r \in Slots : reqs[r].op = "idle" /\ \A q \in 1..(r - 1) : reqs[q].op # "idle"

\* A turn of the session is being handled
TurnInFlight(session_id) ==
    \E r \in Slots : reqs[r].op = "turn" /\ reqs[r].session_id = session_id

\* What a handler returns to its caller
Response(name, session_id, result) ==
    [name |-> name, args |-> [session_id |-> session_id], result |-> result]

\* session.get("customer_id") or "guest"
CustomerOrGuest(session) == IF session.customer_id = "" THEN "guest" ELSE session.customer_id

\* The history of a session that no code keeps: the verify_identity calls its
\* completed turns made, the customers verify_identity succeeded for
NewHistory == [verify_calls |-> 0, verified_here |-> {}]

\* The customers a successful verify_identity result among messages is about
VerifiedIn(messages) ==
    {messages[i - 1].tool_calls[1].args.customer_id :
        i \in {j \in 2..Len(messages) :
                  /\ messages[j].type = "tool"
                  /\ messages[j].name = "verify_identity"
                  /\ messages[j].content.ok}}

----------------------------------------------------------------------------
(* main.py: the handlers.  A handler runs alone between two awaits; each action *)
(* is one such stretch.  agent_app.invoke is a synchronous call, so a whole     *)
(* invocation, tool calls included, is inside one stretch.                      *)

\* start_call(env_key).  The session id is not known to any caller before the
\* handler returns, so its awaits are not visible to other requests.
StartCall(env_key) ==
    LET session_id == Cardinality(DOMAIN sessions) + 1
        cfgs == IF USE_DB THEN ensure_env_config(configs, env_key) ELSE configs
    IN  /\ session_id <= MaxSessions
        /\ sessions' = sessions @@ (session_id :> NewSession("guest", IF USE_DB THEN env_key ELSE ""))
        /\ verified' = reset_verification(verified, "guest")
        /\ configs' = cfgs
        /\ toolFlags' = IF USE_DB THEN cfgs[env_key].tool_flags ELSE toolFlags
        /\ turns' = turns @@ (session_id :>
                        IF USE_DB THEN <<TurnRecord(clock, None, Greeting, <<>>)>> ELSE <<>>)
        /\ ghost' = [ghost EXCEPT !.history = @ @@ (session_id :> NewHistory)]
        /\ last' = Response("start_call", session_id,
                            [status |-> 200, agent_response |-> Greeting, is_verified |-> FALSE])
        /\ UNCHANGED <<db, clock, USE_DB, reqs>>

\* The locals of call_turn after the session was read and the cache hydrated
TurnRequest(session_id, session) ==
    [op |-> "turn", pc |-> "audio", session_id |-> session_id,
     session |-> IF USE_DB THEN session ELSE <<>>,
     is_verified_session |-> session.verified_identity,
     user_text |-> <<>>, messages |-> <<>>, bot_response |-> <<>>, tool_calls |-> <<>>,
     attempts_delta |-> 0, verified_now |-> FALSE, verified_customer_id |-> "", now |-> 0]

\* CallTurnBegin without the check of the ended flag
CallTurnBegin_ignore_ended(session_id) ==
    /\ HasFreeSlot
    /\ IF ~Has(sessions, session_id)
       THEN /\ last' = Response("call_turn", session_id,
                                [status |-> 404, detail |-> "Session not found or ended"])
            /\ UNCHANGED <<verified, toolFlags, db, clock, sessVars>>
       ELSE LET session == sessions[session_id]
                env_key == IF session.env_key = "" THEN DEFAULT_ENV_KEY ELSE session.env_key
                cfgs == IF USE_DB THEN ensure_env_config(configs, env_key) ELSE configs
            IN  /\ ghost.turns_begun < MaxTurns
                /\ configs' = cfgs
                /\ toolFlags' = IF USE_DB THEN cfgs[env_key].tool_flags ELSE toolFlags
                /\ verified' = set_verification_state(verified, CustomerOrGuest(session),
                                                      session.verified_identity)
                /\ reqs' = [reqs EXCEPT ![FreeSlot] = TurnRequest(session_id, session)]
                /\ ghost' = [ghost EXCEPT !.turns_begun = @ + 1]
                /\ last' = NoCall
                /\ UNCHANGED <<db, clock, USE_DB, sessions, turns>>

\* call_turn, from the read of the session to the hydration of the cache
CallTurnBegin(session_id) ==
    /\ HasFreeSlot
    /\ IF ~Has(sessions, session_id) \/ sessions[session_id].ended
       THEN /\ last' = Response("call_turn", session_id,
                                [status |-> 404, detail |-> "Session not found or ended"])
            /\ UNCHANGED <<verified, toolFlags, db, clock, sessVars>>
       ELSE LET session == sessions[session_id]
                env_key == IF session.env_key = "" THEN DEFAULT_ENV_KEY ELSE session.env_key
                cfgs == IF USE_DB THEN ensure_env_config(configs, env_key) ELSE configs
            IN  /\ ghost.turns_begun < MaxTurns
                /\ configs' = cfgs
                /\ toolFlags' = IF USE_DB THEN cfgs[env_key].tool_flags ELSE toolFlags
                /\ verified' = set_verification_state(verified, CustomerOrGuest(session),
                                                      session.verified_identity)
                /\ reqs' = [reqs EXCEPT ![FreeSlot] = TurnRequest(session_id, session)]
                /\ ghost' = [ghost EXCEPT !.turns_begun = @ + 1]
                /\ last' = NoCall
                /\ UNCHANGED <<db, clock, USE_DB, sessions, turns>>

\* CallTurnAudio without the check of the transcript
CallTurnAudio_any_transcript(r, size, user_text) ==
    /\ reqs[r].op = "turn"
    /\ reqs[r].pc = "audio"
    /\ IF size < MinAudioSize
       THEN /\ reqs' = [reqs EXCEPT ![r] = Idle]
            /\ last' = Response("call_turn", reqs[r].session_id,
                                [status |-> 400, error |-> "Audio recording too short."])
       ELSE IF size > MAX_FILE_SIZE
       THEN /\ reqs' = [reqs EXCEPT ![r] = Idle]
            /\ last' = Response("call_turn", reqs[r].session_id,
                                [status |-> 413, detail |-> "Audio file too large (Max 10MB)"])
       ELSE /\ reqs' = [reqs EXCEPT ![r].pc = "invoke", ![r].user_text = user_text]
            /\ last' = NoCall
    /\ UNCHANGED <<verified, toolFlags, db, clock, USE_DB, sessions, turns, configs, ghost>>

\* call_turn, from audio.read() to the result of transcribe_audio
CallTurnAudio(r, size, user_text) ==
    /\ reqs[r].op = "turn"
    /\ reqs[r].pc = "audio"
    /\ IF size < MinAudioSize
       THEN /\ reqs' = [reqs EXCEPT ![r] = Idle]
            /\ last' = Response("call_turn", reqs[r].session_id,
                                [status |-> 400, error |-> "Audio recording too short."])
       ELSE IF size > MAX_FILE_SIZE
       THEN /\ reqs' = [reqs EXCEPT ![r] = Idle]
            /\ last' = Response("call_turn", reqs[r].session_id,
                                [status |-> 413, detail |-> "Audio file too large (Max 10MB)"])
       ELSE IF user_text = <<>>
       THEN /\ reqs' = [reqs EXCEPT ![r] = Idle]
            /\ last' = Response("call_turn", reqs[r].session_id,
                                [status |-> 400, error |-> "Could not transcribe audio."])
       ELSE /\ reqs' = [reqs EXCEPT ![r].pc = "invoke", ![r].user_text = user_text]
            /\ last' = NoCall
    /\ UNCHANGED <<verified, toolFlags, db, clock, USE_DB, sessions, turns, configs, ghost>>

\* The session as call_turn sees it: the row it read, or the live in-memory session
SessionOf(r) == IF USE_DB THEN reqs[r].session ELSE sessions[reqs[r].session_id]

\* The messages call_turn gives the agent
InputMessages(r) ==
    (IF USE_DB THEN HistoryMessages(get_turns(turns[reqs[r].session_id]))
     ELSE sessions[reqs[r].session_id].messages)
    \o <<HumanMessage(reqs[r].user_text)>>

\* call_turn, from the reading of the history to the first await after
\* agent_app.invoke returned: the model asks for the calls of script, then answers
\* answer.  In memory the session is written in the same stretch.
TurnInvoke(r, script, answer) ==
    LET session_id == reqs[r].session_id
        session == SessionOf(r)
        current_customer_id == CustomerOrGuest(session)
        input == InputMessages(r)
        run == RunScript(script, Len(input), verified, toolFlags, db, clock)
        result == input \o run.messages \o <<AIMessage(answer, <<>>)>>
        all_tool_calls == AllToolCalls(result)
        ex == _extract_verify_success(all_tool_calls, result)
        tool_calls == _sanitize_tool_calls(all_tool_calls)
        bot_response == _apply_sensitive_guardrail(_sanitize_agent_text(answer), result,
                                                   current_customer_id)
        locals == [reqs[r] EXCEPT !.messages = result,
                                  !.bot_response = bot_response,
                                  !.tool_calls = tool_calls,
                                  !.attempts_delta = ex.attempts,
                                  !.verified_now = ex.verified,
                                  !.verified_customer_id = ex.verified_customer_id,
                                  !.now = clock]
    IN  /\ reqs[r].op = "turn"
        /\ reqs[r].pc = "invoke"
        /\ verified' = run.verified
        /\ db' = run.db
        /\ IF USE_DB
           THEN /\ reqs' = [reqs EXCEPT ![r] = [locals EXCEPT !.pc = "append_turn"]]
                /\ UNCHANGED <<sessions, turns>>
           ELSE /\ reqs' = [reqs EXCEPT ![r] = [locals EXCEPT !.pc = "synthesize"]]
                /\ sessions' =
                     [sessions EXCEPT ![session_id] =
                        [@ EXCEPT !.messages = result,
                                  !.verification_attempts = @ + ex.attempts,
                                  !.verified_identity = IF ex.verified THEN TRUE ELSE @,
                                  !.customer_id = IF ex.verified /\ ex.verified_customer_id # ""
                                                  THEN ex.verified_customer_id ELSE @]]
                /\ turns' = [turns EXCEPT ![session_id] =
                                Append(@, TurnRecord(clock, reqs[r].user_text, bot_response,
                                                     tool_calls))]
        /\ ghost' = [ghost EXCEPT
                        !.history[session_id].verify_calls =
                            @ + Cardinality(VerifyCallPositions(script)),
                        !.history[session_id].verified_here = @ \cup VerifiedIn(run.messages)]
        /\ last' = NoCall
        /\ UNCHANGED <<toolFlags, clock, USE_DB, configs>>

\* Texts of the exceptions agent_app.invoke raises: "Error code: 429", "boom", and
\* rate limit errors that say when to try again
UpstreamErrors ==
    {<<"E", "r", "r", "o", "r", " ", "c", "o", "d", "e", ":", " ", "4", "2", "9">>,
     <<"b", "o", "o", "m">>,
     <<"r", "a", "t", "e", " ", "l", "i", "m", "i", "t", " ", "r", "e", "a", "c", "h", "e", "d", " ", "t", "r", "y", " ", "a", "g", "a", "i", "n", " ", "i", "n", " ", "1", "m", "2", ".", "5", "s">>,
     <<"r", "a", "t", "e", "_", "l", "i", "m", "i", "t", "_", "e", "x", "c", "e", "e", "d", "e", "d", " ", "T", "r", "y", " ", "a", "g", "a", "i", "n", " ", "i", "n", " ", " ", "1", "0", "m", "0", ".", "9", "9", "9", "s">>,
     <<"r", "a", "t", "e", " ", "l", "i", "m", "i", "t", " ", "r", "e", "a", "c", "h", "e", "d", " ", "t", "r", "y", " ", "a", "g", "a", "i", "n", " ", "i", "n", " ", "7", ".", "5", "s">>,
     <<"r", "a", "t", "e", " ", "l", "i", "m", "i", "t", " ", "r", "e", "a", "c", "h", "e", "d", " ", "t", "r", "y", " ", "a", "g", "a", "i", "n", " ", "i", "n", " ", "1", "m", "1", ".", "2", ".", "3", "s">>}

\* call_turn when agent_app.invoke raises, after the calls of script ran: the
\* handler of the exception answers 429 or raises again, its own error included
TurnInvokeFails(r, script, exc) ==
    LET session_id == reqs[r].session_id
        input == InputMessages(r)
        run == RunScript(script, Len(input), verified, toolFlags, db, clock)
    IN  /\ reqs[r].op = "turn"
        /\ reqs[r].pc = "invoke"
        /\ verified' = run.verified
        /\ db' = run.db
        /\ sessions' = IF USE_DB THEN sessions
                       ELSE [sessions EXCEPT ![session_id].messages = input]
        /\ reqs' = [reqs EXCEPT ![r] = Idle]
        /\ last' = IF _is_rate_limited_error(exc)
                   THEN LET retry_after == _extract_retry_after_seconds(exc) IN
                        IF retry_after.kind = "ValueError"
                        THEN Response("call_turn", session_id,
                                      [status |-> 500,
                                       detail |-> "could not convert string to float"])
                        ELSE Response("call_turn", session_id,
                                      [status |-> 429,
                                       detail |-> "LLM rate limit reached. Please try again shortly.",
                                       headers |-> IF retry_after.kind = "None" THEN <<>>
                                                   ELSE "Retry-After" :> Str(retry_after.value)])
                   ELSE Response("call_turn", session_id, [status |-> 500, detail |-> Join(exc)])
        /\ UNCHANGED <<toolFlags, clock, USE_DB, turns, configs, ghost>>

\* call_turn with USE_DB: append_turn
TurnAppend(r) ==
    /\ reqs[r].op = "turn"
    /\ reqs[r].pc = "append_turn"
    /\ turns' = [turns EXCEPT ![reqs[r].session_id] =
                    Append(@, TurnRecord(reqs[r].now, reqs[r].user_text, reqs[r].bot_response,
                                         reqs[r].tool_calls))]
    /\ reqs' = [reqs EXCEPT ![r].pc =
                    IF reqs[r].attempts_delta # 0 \/ reqs[r].verified_now
                    THEN "set_verification" ELSE "synthesize"]
    /\ last' = NoCall
    /\ UNCHANGED <<verified, toolFlags, db, clock, USE_DB, sessions, configs, ghost>>

\* set_verification with the verification of this turn alone
TurnSetVerification_forget(r) ==
    /\ reqs[r].op = "turn"
    /\ reqs[r].pc = "set_verification"
    /\ sessions' = [sessions EXCEPT ![reqs[r].session_id] =
                       [@ EXCEPT !.verified_identity = reqs[r].verified_now,
                                 !.verification_attempts =
                                     reqs[r].session.verification_attempts
                                     + reqs[r].attempts_delta]]
    /\ reqs' = [reqs EXCEPT ![r].pc =
                    IF reqs[r].verified_now /\ reqs[r].verified_customer_id # ""
                    THEN "set_customer_id" ELSE "synthesize"]
    /\ last' = NoCall
    /\ UNCHANGED <<verified, toolFlags, db, clock, USE_DB, turns, configs, ghost>>

\* call_turn with USE_DB: set_verification, from the row read at the start of the turn
TurnSetVerification(r) ==
    /\ reqs[r].op = "turn"
    /\ reqs[r].pc = "set_verification"
    /\ sessions' = [sessions EXCEPT ![reqs[r].session_id] =
                       [@ EXCEPT !.verified_identity =
                                     reqs[r].verified_now \/ reqs[r].session.verified_identity,
                                 !.verification_attempts =
                                     reqs[r].session.verification_attempts
                                     + reqs[r].attempts_delta]]
    /\ reqs' = [reqs EXCEPT ![r].pc =
                    IF reqs[r].verified_now /\ reqs[r].verified_customer_id # ""
                    THEN "set_customer_id" ELSE "synthesize"]
    /\ last' = NoCall
    /\ UNCHANGED <<verified, toolFlags, db, clock, USE_DB, turns, configs, ghost>>

\* call_turn with USE_DB: set_customer_id
TurnSetCustomerId(r) ==
    /\ reqs[r].op = "turn"
    /\ reqs[r].pc = "set_customer_id"
    /\ sessions' = [sessions EXCEPT ![reqs[r].session_id].customer_id =
                       reqs[r].verified_customer_id]
    /\ reqs' = [reqs EXCEPT ![r].pc = "synthesize"]
    /\ last' = NoCall
    /\ UNCHANGED <<verified, toolFlags, db, clock, USE_DB, turns, configs, ghost>>

\* The response of call_turn with the answer as the model gave it
TurnRespond_unguarded(r) ==
    /\ reqs[r].op = "turn"
    /\ reqs[r].pc = "synthesize"
    /\ reqs' = [reqs EXCEPT ![r] = Idle]
    /\ last' = Response("call_turn", reqs[r].session_id,
                        [status |-> 200,
                         user_transcript |-> reqs[r].user_text,
                         agent_response |-> reqs[r].messages[Len(reqs[r].messages)].content,
                         is_verified |-> reqs[r].verified_now \/ reqs[r].is_verified_session])
    /\ UNCHANGED <<verified, toolFlags, db, clock, USE_DB, sessions, turns, configs, ghost>>

\* call_turn: synthesize_audio and the response
TurnRespond(r) ==
    /\ reqs[r].op = "turn"
    /\ reqs[r].pc = "synthesize"
    /\ reqs' = [reqs EXCEPT ![r] = Idle]
    /\ last' = Response("call_turn", reqs[r].session_id,
                        [status |-> 200,
                         user_transcript |-> reqs[r].user_text,
                         agent_response |-> reqs[r].bot_response,
                         is_verified |-> reqs[r].verified_now \/ reqs[r].is_verified_session])
    /\ UNCHANGED <<verified, toolFlags, db, clock, USE_DB, sessions, turns, configs, ghost>>

\* end_call(session_id), up to synthesize_audio: the session is marked ended and
\* its customer dropped from the cache
EndCall(session_id) ==
    /\ HasFreeSlot
    /\ IF ~Has(sessions, session_id)
       THEN /\ last' = Response("end_call", session_id,
                                [status |-> 404, detail |-> "Session not found"])
            /\ UNCHANGED <<verified, toolFlags, db, clock, sessVars>>
       ELSE /\ ghost.ends_begun < MaxEnds
            /\ sessions' = [sessions EXCEPT ![session_id].ended = TRUE]
            /\ verified' = reset_verification(verified, sessions[session_id].customer_id)
            /\ reqs' = [reqs EXCEPT ![FreeSlot] =
                            [op |-> "end", pc |-> "synthesize", session_id |-> session_id]]
            /\ ghost' = [ghost EXCEPT !.ends_begun = @ + 1]
            /\ last' = NoCall
            /\ UNCHANGED <<toolFlags, db, clock, USE_DB, turns, configs>>

\* end_call, after synthesize_audio: with USE_DB the closing turn is appended
EndCallRespond(r) ==
    /\ reqs[r].op = "end"
    /\ reqs[r].pc = "synthesize"
    /\ turns' = IF USE_DB
                THEN [turns EXCEPT ![reqs[r].session_id] =
                         Append(@, TurnRecord(clock, None, Closing, <<>>))]
                ELSE turns
    /\ reqs' = [reqs EXCEPT ![r] = Idle]
    /\ last' = Response("end_call", reqs[r].session_id,
                        [status |-> 200, agent_response |-> Closing, is_verified |-> FALSE])
    /\ UNCHANGED <<verified, toolFlags, db, clock, USE_DB, sessions, configs, ghost>>

----------------------------------------------------------------------------
(* The service: callers and the reasoning model *)

EnvKeys == {DEFAULT_ENV_KEY}

\* Sizes of the audio a caller uploads, around the two limits
AudioSizes == {MinAudioSize - 1, MinAudioSize, MAX_FILE_SIZE, MAX_FILE_SIZE + 1}

\* What the caller says when asked for the PIN: "1234"
UserText == <<"1", "2", "3", "4">>

\* What transcribe_audio returns: nothing, or the caller's words
Transcripts == {<<>>, UserText}

\* The tool calls the reasoning model asks for
VerifyRight == [name |-> "verify_identity", args |-> [customer_id |-> "user123", pin |-> StoredPin]]
VerifyWrong == [name |-> "verify_identity", args |-> [customer_id |-> "user123", pin |-> WrongPin]]
AskBalance == [name |-> "get_account_balance", args |-> [customer_id |-> "user123"]]

\* The calls of one invocation, in order
Scripts ==
    {<<>>, <<VerifyRight>>, <<VerifyWrong>>, <<AskBalance>>,
     <<VerifyRight, AskBalance>>, <<VerifyWrong, VerifyRight>>,
     <<AskBalance, VerifyRight, AskBalance>>}

\* The final answers of the reasoning model: "ok" and "$5"
Answers == {<<"o", "k">>, <<"$", "5">>}

Init ==
    /\ verified = {}
    /\ toolFlags = <<>>
    /\ db = MOCK_DB
    /\ clock = 0
    /\ last = NoCall
    /\ USE_DB \in BOOLEAN
    /\ sessions = <<>>
    /\ turns = <<>>
    /\ configs = IF USE_DB THEN ensure_env_config(<<>>, DEFAULT_ENV_KEY) ELSE <<>>
    /\ reqs = [r \in Slots |-> Idle]
    /\ ghost = [turns_begun |-> 0, ends_begun |-> 0, history |-> <<>>]

Next ==
    \/ \E env_key \in EnvKeys : StartCall(env_key)
    \/ \E session_id \in 1..MaxSessions : CallTurnBegin(session_id)
    \/ \E r \in Slots : \E size \in AudioSizes : \E user_text \in Transcripts :
          CallTurnAudio(r, size, user_text)
    \/ \E r \in Slots : \E script \in Scripts : \E answer \in Answers :
          TurnInvoke(r, script, answer)
    \/ \E r \in Slots : \E script \in Scripts : \E exc \in UpstreamErrors :
          TurnInvokeFails(r, script, exc)
    \/ \E r \in Slots : TurnAppend(r)
    \/ \E r \in Slots : TurnSetVerification(r)
    \/ \E r \in Slots : TurnSetCustomerId(r)
    \/ \E r \in Slots : TurnRespond(r)
    \/ \E session_id \in 1..MaxSessions : EndCall(session_id)
    \/ \E r \in Slots : EndCallRespond(r)

Spec == Init /\ [][Next]_vars

\* The service with the persistent store while time passes: time.time() gives the
\* second of the moment
InitTimed == Init /\ USE_DB = TRUE

\* The callers of SpecTimed wait for the turn of a session to end before they
\* send its next turn
NextTimed ==
    \/ \E env_key \in EnvKeys : StartCall(env_key)
    \/ \E session_id \in 1..MaxSessions :
          ~TurnInFlight(session_id) /\ CallTurnBegin(session_id)
    \/ \E r \in Slots : \E size \in AudioSizes : \E user_text \in Transcripts :
          CallTurnAudio(r, size, user_text)
    \/ \E r \in Slots : \E script \in Scripts : \E answer \in Answers :
          TurnInvoke(r, script, answer)
    \/ \E r \in Slots : \E script \in Scripts : \E exc \in UpstreamErrors :
          TurnInvokeFails(r, script, exc)
    \/ \E r \in Slots : TurnAppend(r)
    \/ \E r \in Slots : TurnSetVerification(r)
    \/ \E r \in Slots : TurnSetCustomerId(r)
    \/ \E r \in Slots : TurnRespond(r)
    \/ \E session_id \in 1..MaxSessions : EndCall(session_id)
    \/ \E r \in Slots : EndCallRespond(r)
    \/ Tick

SpecTimed == InitTimed /\ [][NextTimed]_vars

\* The service in either mode, its callers waiting for the turn of a session to
\* end before they send its next turn
NextSerial ==
    \/ \E env_key \in EnvKeys : StartCall(env_key)
    \/ \E session_id \in 1..MaxSessions :
          ~TurnInFlight(session_id) /\ CallTurnBegin(session_id)
    \/ \E r \in Slots : \E size \in AudioSizes : \E user_text \in Transcripts :
          CallTurnAudio(r, size, user_text)
    \/ \E r \in Slots : \E script \in Scripts : \E answer \in Answers :
          TurnInvoke(r, script, answer)
    \/ \E r \in Slots : \E script \in Scripts : \E exc \in UpstreamErrors :
          TurnInvokeFails(r, script, exc)
    \/ \E r \in Slots : TurnAppend(r)
    \/ \E r \in Slots : TurnSetVerification(r)
    \/ \E r \in Slots : TurnSetCustomerId(r)
    \/ \E r \in Slots : TurnRespond(r)
    \/ \E session_id \in 1..MaxSessions : EndCall(session_id)
    \/ \E r \in Slots : EndCallRespond(r)

SpecSerial == Init /\ [][NextSerial]_vars


\* The lost-card conversation: the caller gives the customer id "John123" or
\* "user123" with the PIN "1234", then asks to block the card
VerifyJohn == [name |-> "verify_identity", args |-> [customer_id |-> "John123", pin |-> StoredPin]]
BlockCard == [name |-> "block_card", args |-> [card_id |-> "card_123", reason |-> "lost"]]

ScenarioScripts == {<<VerifyJohn>>, <<VerifyRight>>, <<BlockCard>>}

\* start_call and call_turn with the calls of the lost-card conversation
NextScenario ==
    \/ \E env_key \in EnvKeys : StartCall(env_key)
    \/ \E session_id \in 1..MaxSessions : CallTurnBegin(session_id)
    \/ \E r \in Slots : CallTurnAudio(r, MinAudioSize, UserText)
    \/ \E r \in Slots : \E script \in ScenarioScripts : TurnInvoke(r, script, <<"o", "k">>)
    \/ \E r \in Slots : TurnAppend(r)
    \/ \E r \in Slots : TurnSetVerification(r)
    \/ \E r \in Slots : TurnSetCustomerId(r)
    \/ \E r \in Slots : TurnRespond(r)

SpecScenario == Init /\ [][NextScenario]_vars

----------------------------------------------------------------------------
(* config_repo.py and the admin endpoints of main.py with the persistent     *)
(* store, one store call per step.  The configs table has env_key as its     *)
(* primary key.                                                              *)

\* The environments administrators and callers name: the seeded one and another
ConfigEnvKeys == {DEFAULT_ENV_KEY, "prod"}

\* The tool_flags an administrator puts
AdminFlags == {<<>>, "get_account_balance" :> [enabled |-> FALSE]}

\* The request in slot r has done its step and goes on with the next one of todo
Proceed(r) == [reqs[r] EXCEPT !.pc = Head(reqs[r].todo), !.todo = Tail(reqs[r].todo)]

\* admin_get_tools(env): get_env_config is called
AdminGetTools(env_key) ==
    /\ HasFreeSlot
    /\ reqs' = [reqs EXCEPT ![FreeSlot] =
                    [op |-> "admin_get_tools", pc |-> "ensure_select", session_id |-> 0,
                     env_key |-> env_key, tool_flags |-> <<>>, todo |-> <<"select">>]]
    /\ last' = NoCall
    /\ UNCHANGED <<verified, toolFlags, db, clock, USE_DB, sessions, turns, configs, ghost>>

\* admin_put_tools(payload, env): update_env_config is called, which ends with
\* get_env_config
AdminPutTools(env_key, tool_flags) ==
    /\ HasFreeSlot
    /\ reqs' = [reqs EXCEPT ![FreeSlot] =
                    [op |-> "admin_put_tools", pc |-> "ensure_select", session_id |-> 0,
                     env_key |-> env_key, tool_flags |-> tool_flags,
                     todo |-> <<"update", "ensure_select", "select">>]]
    /\ last' = NoCall
    /\ UNCHANGED <<verified, toolFlags, db, clock, USE_DB, sessions, turns, configs, ghost>>

\* ensure_env_config, the select: with a row there is nothing to insert
EnsureSelect(r) ==
    /\ reqs[r].op \in {"admin_get_tools", "admin_put_tools"}
    /\ reqs[r].pc = "ensure_select"
    /\ reqs' = [reqs EXCEPT ![r] = IF Has(configs, reqs[r].env_key) THEN Proceed(r)
                                   ELSE [reqs[r] EXCEPT !.pc = "ensure_insert"]]
    /\ last' = NoCall
    /\ UNCHANGED <<verified, toolFlags, db, clock, USE_DB, sessions, turns, configs, ghost>>

\* ensure_env_config, the insert: the store refuses a second row of the key, and
\* the exception ends the request
EnsureInsert(r) ==
    /\ reqs[r].op \in {"admin_get_tools", "admin_put_tools"}
    /\ reqs[r].pc = "ensure_insert"
    /\ IF Has(configs, reqs[r].env_key)
       THEN /\ reqs' = [reqs EXCEPT ![r] = Idle]
            /\ last' = [name |-> reqs[r].op, args |-> [env_key |-> reqs[r].env_key],
                        result |-> [status |-> 500, raised |-> "duplicate key"]]
            /\ UNCHANGED configs
       ELSE /\ reqs' = [reqs EXCEPT ![r] = Proceed(r)]
            /\ last' = NoCall
            /\ configs' = configs @@ (reqs[r].env_key :> [tool_flags |-> <<>>])
    /\ UNCHANGED <<verified, toolFlags, db, clock, USE_DB, sessions, turns, ghost>>

\* update_env_config, the update of the row of the key
ConfigUpdate(r) ==
    /\ reqs[r].op = "admin_put_tools"
    /\ reqs[r].pc = "update"
    /\ configs' = IF Has(configs, reqs[r].env_key)
                  THEN [configs EXCEPT ![reqs[r].env_key].tool_flags = reqs[r].tool_flags]
                  ELSE configs
    /\ reqs' = [reqs EXCEPT ![r] = Proceed(r)]
    /\ last' = NoCall
    /\ UNCHANGED <<verified, toolFlags, db, clock, USE_DB, sessions, turns, ghost>>

\* get_env_config, the select, and the rest of the endpoint: admin_put_tools
\* for "dev" sets the flags of the process
ConfigSelect(r) ==
    LET cfg_tool_flags == IF Has(configs, reqs[r].env_key)
                          THEN configs[reqs[r].env_key].tool_flags ELSE <<>>
    IN  /\ reqs[r].op \in {"admin_get_tools", "admin_put_tools"}
        /\ reqs[r].pc = "select"
        /\ toolFlags' = IF reqs[r].op = "admin_put_tools" /\ reqs[r].env_key = "dev"
                        THEN cfg_tool_flags ELSE toolFlags
        /\ reqs' = [reqs EXCEPT ![r] = Idle]
        /\ last' = [name |-> reqs[r].op, args |-> [env_key |-> reqs[r].env_key],
                    result |-> [status |-> 200, tool_flags |-> cfg_tool_flags]]
        /\ UNCHANGED <<verified, db, clock, USE_DB, sessions, turns, configs, ghost>>

\* Calls and administration with the persistent store
NextConfig ==
    \/ \E env_key \in ConfigEnvKeys : StartCall(env_key)
    \/ \E session_id \in 1..MaxSessions : CallTurnBegin(session_id)
    \/ \E r \in Slots : CallTurnAudio(r, MinAudioSize, UserText)
    \/ \E r \in Slots : TurnInvoke(r, <<AskBalance>>, <<"o", "k">>)
    \/ \E r \in Slots : TurnAppend(r)
    \/ \E r \in Slots : TurnRespond(r)
    \/ \E env_key \in ConfigEnvKeys : AdminGetTools(env_key)
    \/ \E env_key \in ConfigEnvKeys : \E tool_flags \in AdminFlags :
          AdminPutTools(env_key, tool_flags)
    \/ \E r \in Slots : EnsureSelect(r)
    \/ \E r \in Slots : EnsureInsert(r)
    \/ \E r \in Slots : ConfigUpdate(r)
    \/ \E r \in Slots : ConfigSelect(r)

SpecConfig == InitTimed /\ [][NextConfig]_vars

----------------------------------------------------------------------------
(* agent.py: the graph START -> router -> chatbot -> (tools -> chatbot)* -> END, *)
(* one node per step                                                             *)

\* The tool rounds of one invocation that are followed
MaxRounds == 2

\* Flow labels, and the set allowed of router with all six
card_atm_issues == <<"c", "a", "r", "d", "_", "a", "t", "m", "_", "i", "s", "s", "u", "e", "s">>
account_servicing == <<"a", "c", "c", "o", "u", "n", "t", "_", "s", "e", "r", "v", "i", "c", "i", "n", "g">>
account_opening == <<"a", "c", "c", "o", "u", "n", "t", "_", "o", "p", "e", "n", "i", "n", "g">>

allowed ==
    {card_atm_issues, account_servicing, account_opening,
     <<"d", "i", "g", "i", "t", "a", "l", "_", "a", "p", "p", "_", "s", "u", "p", "p", "o", "r", "t">>,
     <<"t", "r", "a", "n", "s", "f", "e", "r", "s", "_", "a", "n", "d", "_", "b", "i", "l", "l", "_", "p", "a", "y", "m", "e", "n", "t", "s">>,
     <<"a", "c", "c", "o", "u", "n", "t", "_", "c", "l", "o", "s", "u", "r", "e", "_", "r", "e", "t", "e", "n", "t", "i", "o", "n">>}

\* ChatGroq(model="llama-3.3-70b-versatile"): the one model agent.py calls
llm == "llama-3.3-70b-versatile"

\* router(state), given the content of the classifier's response: the update of the state
router(state, content) ==
    LET label == Strip(content)
    IN  [flow |-> IF label \in allowed THEN label ELSE account_servicing]

\* chatbot(state), given the response of llm_with_tools: the update of the state
chatbot(state, response) == [messages |-> <<response>>]

\* tools_condition: where the graph goes after chatbot
tools_condition(messages) ==
    IF messages[Len(messages)].tool_calls # <<>> THEN "tools" ELSE "END"

\* ToolNode(tools) on the calls of the last message: the tool messages, the cache
\* and the data afterwards
RECURSIVE ToolNode(_, _, _, _, _)
ToolNode(tool_calls, ver, flags, d, t) ==
    IF tool_calls = <<>> THEN [messages |-> <<>>, verified |-> ver, db |-> d]
    ELSE LET call == Head(tool_calls)
             out == RunTool(call.name, call.args, ver, flags, d, t)
             rest == ToolNode(Tail(tool_calls), out.verified, flags, out.db, t)
         IN  [messages |-> <<ToolMessage(call.name, out.result, call.id)>> \o rest.messages,
              verified |-> rest.verified,
              db |-> rest.db]

\* The text of no exception: the call returns
NoError == <<>>

\* What agent_app.invoke gives its caller: the final state, or the exception raised
Invocation(inputs, result) == [name |-> "agent_app.invoke", args |-> inputs, result |-> result]

\* agent_app.invoke(inputs) is called: the state of the graph is inputs, the node
\* router is due
AgentInvoke(inputs) ==
    /\ reqs = <<>>
    /\ reqs' = <<[node |-> "router", inputs |-> inputs, messages |-> inputs.messages,
                  customer_id |-> inputs.customer_id, flow |-> inputs.flow, rounds |-> 0]>>
    /\ last' = NoCall
    /\ UNCHANGED <<verified, toolFlags, db, clock, USE_DB, sessions, turns, configs, ghost>>

\* The node router: the classifier answers with content, or its call raises exc
Router(raises, content, exc) ==
    /\ reqs # <<>>
    /\ reqs[1].node = "router"
    /\ IF raises
       THEN /\ reqs' = <<>>
            /\ last' = Invocation(reqs[1].inputs, [raised |-> exc])
       ELSE /\ reqs' = <<[reqs[1] EXCEPT !.node = "chatbot",
                                         !.flow = router(reqs[1], content).flow]>>
            /\ last' = NoCall
    /\ UNCHANGED <<verified, toolFlags, db, clock, USE_DB, sessions, turns, configs, ghost>>

\* The node chatbot: service tells how the reasoning service answers a call to each
\* of its models at this moment, response is what a model that answers says
Chatbot(service, response) ==
    /\ reqs # <<>>
    /\ reqs[1].node = "chatbot"
    /\ response.tool_calls # <<>> => reqs[1].rounds < MaxRounds
    /\ IF service[llm] # NoError
       THEN /\ reqs' = <<>>
            /\ last' = Invocation(reqs[1].inputs, [raised |-> service[llm]])
       ELSE LET messages == reqs[1].messages \o chatbot(reqs[1], response).messages IN
            IF tools_condition(messages) = "tools"
            THEN /\ reqs' = <<[reqs[1] EXCEPT !.node = "tools", !.messages = messages]>>
                 /\ last' = NoCall
            ELSE /\ reqs' = <<>>
                 /\ last' = Invocation(reqs[1].inputs,
                                       [messages |-> messages,
                                        customer_id |-> reqs[1].customer_id,
                                        flow |-> reqs[1].flow])
    /\ UNCHANGED <<verified, toolFlags, db, clock, USE_DB, sessions, turns, configs, ghost>>

\* The node tools
Tools ==
    /\ reqs # <<>>
    /\ reqs[1].node = "tools"
    /\ LET messages == reqs[1].messages
           out == ToolNode(messages[Len(messages)].tool_calls, verified, toolFlags, db, clock)
       IN  /\ verified' = out.verified
           /\ db' = out.db
           /\ reqs' = <<[reqs[1] EXCEPT !.node = "chatbot",
                                        !.messages = messages \o out.messages,
                                        !.rounds = @ + 1]>>
    /\ last' = NoCall
    /\ UNCHANGED <<toolFlags, clock, USE_DB, sessions, turns, configs, ghost>>

\* The state agent_app.invoke is called with: call_turn gives flow None; a caller
\* that keeps the flow of the conversation gives the label it holds
AgentInputs ==
    [messages : {<<HumanMessage(UserText)>>, <<HumanMessage(<<"y", "e", "s">>)>>},
     customer_id : {"guest", "user123"},
     flow : {None, card_atm_issues}]

\* What the classifier answers: a label, a label between blanks, other words, nothing
ClassifierContents ==
    {card_atm_issues, <<" ">> \o account_opening \o <<" ">>, <<"y", "e", "s">>, <<>>}

\* How the reasoning service answers a call to each of its models, the one agent.py
\* names and another one: with a response, or with an error
Services == [{llm, "llama-3.1-8b-instant"} -> {NoError} \cup UpstreamErrors]

\* What a model that answers says: a final answer, or a tool call
Responses ==
    {AIMessage(<<"o", "k">>, <<>>),
     AIMessage(<<>>, <<[name |-> VerifyRight.name, args |-> VerifyRight.args, id |-> 1]>>),
     AIMessage(<<>>, <<[name |-> AskBalance.name, args |-> AskBalance.args, id |-> 2]>>)}

InitAgent == InitTools

NextAgent ==
    \/ \E inputs \in AgentInputs : AgentInvoke(inputs)
    \/ \E content \in ClassifierContents : Router(FALSE, content, <<>>)
    \/ \E exc \in UpstreamErrors : Router(TRUE, <<>>, exc)
    \/ \E service \in Services : \E response \in Responses : Chatbot(service, response)
    \/ Tools

SpecAgent == InitAgent /\ [][NextAgent]_vars


----------------------------------------------------------------------------
(* Properties of the agent graph *)

\* The invocation ended with an exception
Raised(l) == l # NoCall /\ l.name = "agent_app.invoke" /\ Has(l.result, "raised")

\* C12, as stated: when the classifier's text is none of the six labels, the router
\* yields the current flow if that is a valid label, and account_servicing only
\* when there is no valid current flow.
C12_Original ==
    [][\A content \in ClassifierContents :
          (Router(FALSE, content, <<>>) /\ Strip(content) \notin allowed) =>
              reqs'[1].flow = IF reqs[1].flow \in allowed THEN reqs[1].flow
                              ELSE account_servicing]_vars

\* C13, as stated: when the call to the first model fails with a rate-limit-shaped
\* error and the call to the second model succeeds, the invocation goes on with
\* the second model's response: it does not fail.
C13_Original ==
    [][\A service \in Services : \A response \in Responses :
          (/\ Chatbot(service, response)
           /\ _is_rate_limited_error(service[llm])
           /\ \E m \in DOMAIN service \ {llm} : service[m] = NoError) =>
              /\ ~Raised(last')
              /\ IF reqs' = <<>> THEN last'.result.messages[Len(last'.result.messages)] = response
                 ELSE reqs'[1].messages[Len(reqs'[1].messages)] = response]_vars

\* C29, as stated: whatever the outcome of the classifier call, its raising an
\* error included, the router yields one of the six labels and the invocation
\* goes on to the reasoning step.
C29_Original ==
    [][(reqs # <<>> /\ reqs[1].node = "router") =>
          /\ reqs' # <<>>
          /\ reqs'[1].node = "chatbot"
          /\ reqs'[1].flow \in allowed
          /\ ~Raised(last')]_vars

----------------------------------------------------------------------------
(* Properties of the sessions and turns *)

\* The position of the caller's words of the current turn among messages
LastHuman(messages) == Max({i \in 1..Len(messages) : messages[i].type = "human"})

\* The request in slot r holds the result of its invocation
Invoked(r) ==
    /\ reqs[r].op = "turn"
    /\ reqs[r].pc \in {"append_turn", "set_verification", "set_customer_id", "synthesize"}

\* The customer the tool call answered by messages[i] names
CalledFor(messages, i) == messages[i - 1].tool_calls[1].args.customer_id

\* verify_identity succeeded for customer c in the current turn before messages[i]
VerifiedEarlier(messages, i, c) ==
    \E j \in (LastHuman(messages) + 1)..(i - 1) :
        /\ messages[j].type = "tool"
        /\ messages[j].name = "verify_identity"
        /\ messages[j].content.ok
        /\ CalledFor(messages, j) = c

SucceededInTurn(messages, name) ==
    \E i \in (LastHuman(messages) + 1)..Len(messages) :
        /\ messages[i].type = "tool"
        /\ messages[i].name = name
        /\ messages[i].content.shape = "dict"
        /\ messages[i].content.error = ""

\* C4, as stated: a final answer with a currency amount is returned unchanged if
\* the trace of the turn holds a successful get_account_balance result and is
\* replaced by the verification prompt if it holds none; the same for an answer
\* that discloses contact data, with get_customer_profile.
C4_Original ==
    \A r \in Slots :
        Invoked(r) =>
            LET messages == reqs[r].messages
                answer == Strip(messages[Len(messages)].content)
            IN  /\ HasAmount(answer) =>
                      IF SucceededInTurn(messages, "get_account_balance")
                      THEN reqs[r].bot_response = answer
                      ELSE reqs[r].bot_response \in {AskCustomerId, AskPin}
                /\ (reveals_contact(answer) /\ ~HasAmount(answer)) =>
                      IF SucceededInTurn(messages, "get_customer_profile")
                      THEN reqs[r].bot_response = answer
                      ELSE reqs[r].bot_response \in {AskCustomerId, AskPin}

\* C8, as stated: once a session's ended flag is true, no turn record is appended
\* to that session's history.
C8_Original ==
    [][\A s \in DOMAIN sessions : sessions[s].ended => turns'[s] = turns[s]]_vars

\* C9, as stated: when no turn of a session is in flight, its verification_attempts
\* is the number of verify_identity calls its completed turns made, in both modes.
C9_Original ==
    \A s \in DOMAIN sessions :
        ~TurnInFlight(s) =>
            sessions[s].verification_attempts = ghost.history[s].verify_calls

\* C10, as stated: whenever verified_identity is true the session's customer_id is
\* a customer verify_identity succeeded for in this session, never "guest".
C10_Original ==
    \A s \in DOMAIN sessions :
        sessions[s].verified_identity =>
            /\ sessions[s].customer_id \in ghost.history[s].verified_here
            /\ sessions[s].customer_id # "guest"

\* The hint of a rate limit error as the service writes it: "try again in 1m2.5s"
HintText(blanks, minutes, seconds, fraction) ==
    <<"t", "r", "y", " ", "a", "g", "a", "i", "n", " ", "i", "n">> \o blanks \o Str(minutes) \o <<"m">> \o Str(seconds) \o fraction
    \o <<"s">>

\* The waits, in whole seconds, that the hints in the text of an error name
Waits(exc) ==
    {ms[1] * 60 + ms[2] :
        ms \in {x \in (0..10) \X (0..9) :
                  \E blanks \in {<<" ">>, <<" ", " ">>} :
                      \E fraction \in {<<>>, <<".", "5">>, <<".", "9", "9", "9">>} :
                          Contains(HintText(blanks, x[1], x[2], fraction), Lower(exc))}}

\* C14, as stated: a turn whose invocation fails with a rate-limit-shaped error
\* ends with HTTP 429 and the fixed message; it carries Retry-After =
\* minutes * 60 + seconds, truncated, exactly when the error names a wait
\* "try again in <minutes>m<seconds>s", and no Retry-After otherwise.
C14_Original ==
    [][\A r \in Slots : \A script \in Scripts : \A exc \in UpstreamErrors :
          (TurnInvokeFails(r, script, exc) /\ _is_rate_limited_error(exc)) =>
              /\ last'.result.status = 429
              /\ last'.result.detail = "LLM rate limit reached. Please try again shortly."
              /\ IF Waits(exc) = {} THEN last'.result.headers = <<>>
                 ELSE \E wait \in Waits(exc) :
                          last'.result.headers = ("Retry-After" :> Str(wait))]_vars

\* This step ended the turn of slot r with the failure of its invocation
TurnFailed(r) ==
    /\ reqs[r].op = "turn"
    /\ reqs[r].pc = "invoke"
    /\ reqs'[r].op = "idle"

\* C15, as stated: when the invocation of an accepted turn raises, possibly after
\* tool calls of the turn ran, no turn record is appended and the session's
\* message history, customer_id, verified_identity and verification_attempts
\* are as before the turn, in both modes.
C15_Original ==
    [][\A r \in Slots :
          TurnFailed(r) =>
              LET s == reqs[r].session_id IN
              /\ turns'[s] = turns[s]
              /\ sessions'[s].messages = sessions[s].messages
              /\ sessions'[s].customer_id = sessions[s].customer_id
              /\ sessions'[s].verified_identity = sessions[s].verified_identity
              /\ sessions'[s].verification_attempts = sessions[s].verification_attempts]_vars

\* C16: a turn whose audio is shorter than 1024 bytes or longer than 10MB, or
\* whose transcription is empty, is answered with a client error and goes no
\* further (the reasoning service is not called for it); the session record and
\* the turn history stay as they are.
C16_InputErrors ==
    [][\A r \in Slots : \A size \in AudioSizes : \A user_text \in Transcripts :
          (/\ CallTurnAudio(r, size, user_text)
           /\ size < 1024 \/ size > 10 * 1024 * 1024 \/ user_text = <<>>) =>
              /\ last'.name = "call_turn"
              /\ Has(last'.result, "status")
              /\ last'.result.status \in 400..499
              /\ reqs[r].messages = <<>>
              /\ reqs'[r] = Idle
              /\ sessions' = sessions
              /\ turns' = turns]_vars

\* C16's case: a turn of a session that is verified and has a turn in its history
\* was rejected because nothing was transcribed
C16_Witness ==
    /\ last.name = "call_turn"
    /\ last.result = [status |-> 400, error |-> "Could not transcribe audio."]
    /\ Has(sessions, last.args.session_id)
    /\ sessions[last.args.session_id].verified_identity
    /\ turns[last.args.session_id] # <<>>
    /\ \A r \in Slots : reqs[r] = Idle

\* This step answered 404 and changed no session, no turn history, no request
\* and not the VerifiedSet
RefusedNotFound ==
    /\ Has(last'.result, "status")
    /\ last'.result.status = 404
    /\ sessions' = sessions
    /\ turns' = turns
    /\ reqs' = reqs
    /\ verified' = verified

\* C17: call/turn on a session id that does not exist or whose session is ended,
\* and call/end on a session id that does not exist, answer not found and create
\* or modify no session, append no turn and leave the VerifiedSet as it is.
C17_SessionErrors ==
    [][\A session_id \in 1..MaxSessions :
          /\ (/\ CallTurnBegin(session_id)
              /\ ~Has(sessions, session_id) \/ sessions[session_id].ended) => RefusedNotFound
          /\ (EndCall(session_id) /\ ~Has(sessions, session_id)) => RefusedNotFound]_vars

\* C17's case: a turn on an ended session was answered 404 while a customer is
\* verified and the session has turns
C17_Witness ==
    /\ last.name = "call_turn"
    /\ last.result.status = 404
    /\ Has(sessions, last.args.session_id)
    /\ sessions[last.args.session_id].ended
    /\ turns[last.args.session_id] # <<>>
    /\ verified = {"user123"}

\* The stored turn records: of every session, in either mode
TurnRecords == UNION {Range(turns[s]) : s \in DOMAIN turns}

\* The PINs callers give in the model
PinsGiven == {VerifyRight.args.pin, VerifyWrong.args.pin}

\* C18, amended: the tool_calls of every stored turn record hold the mask in
\* place of the pin of each verify_identity call, whether or not the guardrail
\* replaced the answer of the turn.
C18_ToolCallsRedacted ==
    \A record \in TurnRecords : \A k \in 1..Len(record.tool_calls) :
        record.tool_calls[k].name = "verify_identity" =>
            /\ record.tool_calls[k].args.pin = Mask
            /\ record.tool_calls[k].args.pin \notin PinsGiven

\* C18, as stated: the tool_calls of every stored turn record hold the mask in
\* place of each verify_identity pin, and no PIN given by a caller appears in any
\* stored turn record.
C18_Original ==
    /\ C18_ToolCallsRedacted
    /\ \A record \in TurnRecords : \A pin \in PinsGiven :
           /\ ~Contains(pin, record.user_transcript)
           /\ ~Contains(pin, record.agent_response)

\* C18's case: a stored record of a turn with a verify_identity call whose answer
\* the guardrail replaced, and one of a turn with such a call whose answer it kept
C18_Witness ==
    \E kept, replaced \in TurnRecords :
        /\ \E k \in 1..Len(kept.tool_calls) : kept.tool_calls[k].name = "verify_identity"
        /\ kept.agent_response = <<"o", "k">>
        /\ \E k \in 1..Len(replaced.tool_calls) : replaced.tool_calls[k].name = "verify_identity"
        /\ replaced.agent_response \in {AskCustomerId, AskPin}

\* C19, as stated: the turn records of a session are appended with strictly
\* increasing ts, so that reading them ordered by ts yields them in the order in
\* which they were appended.  (Checked in its consequence: records that share a
\* second keep their order in get_turns, so only a record appended after one
\* with a later ts makes the two orders differ.)
C19_Original ==
    \A s \in DOMAIN turns : get_turns(turns[s]) = turns[s]

\* The message of an error response: its detail, or its error
MessageOf(result) == IF Has(result, "detail") THEN result.detail ELSE result.error

\* C22, as stated: no error response of call/turn holds the raw text of the
\* upstream error, whatever the failure (rate limit, other upstream error,
\* internal exception).
C22_Original ==
    (last.name = "call_turn" /\ Has(last.result, "status") /\ last.result.status >= 400) =>
        \A exc \in UpstreamErrors : MessageOf(last.result) # Join(exc)

\* The tool messages of the current turn that answer a call of this name with
\* these arguments
Answering(messages, call) ==
    {i \in (LastHuman(messages) + 1)..Len(messages) :
        /\ messages[i].type = "tool"
        /\ messages[i].name = call.name
        /\ messages[i - 1].tool_calls[1].args = call.args}

\* C23, as stated: a turn in which verify_identity is called with customer_id
\* "John123" and PIN "1234" is one in which verify_identity succeeded and which
\* makes the session verified with customer_id "John123"; block_card on the card
\* in a later turn of that session returns success and the card is blocked.
C23_Original ==
    \A r \in Slots :
        Invoked(r) =>
            LET messages == reqs[r].messages IN
            /\ \A i \in Answering(messages, VerifyJohn) :
                   /\ messages[i].content.ok
                   /\ reqs[r].verified_now
                   /\ reqs[r].verified_customer_id = "John123"
            /\ \A i \in Answering(messages, BlockCard) :
                   reqs[r].is_verified_session =>
                       /\ messages[i].content = Blocked("card_123", "lost")
                       /\ db.cards["card_123"].status = "blocked"

\* The scenario with the customer id of MOCK_DB: the session is verified as
\* "user123" and a later turn blocked the card
ScenarioWithStoredId ==
    \E s \in DOMAIN sessions :
        /\ sessions[s].verified_identity
        /\ sessions[s].customer_id = "user123"
        /\ db.cards["card_123"].status = "blocked"
        /\ \E r \in Slots :
               /\ Invoked(r)
               /\ reqs[r].session_id = s
               /\ reqs[r].is_verified_session
               /\ \E i \in Answering(reqs[r].messages, BlockCard) :
                      reqs[r].messages[i].content = Blocked("card_123", "lost")

\* C24, as stated: call/start creates a session with a fresh id, customer_id
\* "guest", not ended, not verified, with 0 verification attempts, whose history
\* holds exactly one turn, the greeting with no user transcript and no tool calls;
\* it returns is_verified = false and leaves every other session unchanged.
C24_Original ==
    [][(last' # NoCall /\ last'.name = "start_call") =>
          LET s == last'.args.session_id IN
          /\ s \notin DOMAIN sessions
          /\ DOMAIN sessions' = DOMAIN sessions \cup {s}
          /\ sessions'[s].customer_id = "guest"
          /\ sessions'[s].ended = FALSE
          /\ sessions'[s].verified_identity = FALSE
          /\ sessions'[s].verification_attempts = 0
          /\ Len(turns'[s]) = 1
          /\ turns'[s][1].user_transcript = None
          /\ turns'[s][1].agent_response = Greeting
          /\ turns'[s][1].tool_calls = <<>>
          /\ last'.result.is_verified = FALSE
          /\ \A o \in DOMAIN sessions : sessions'[o] = sessions[o] /\ turns'[o] = turns[o]]_vars

\* The turn in slot r is between its read of the session and its writes to it
BetweenReadAndWrite(r) ==
    /\ reqs[r].op = "turn"
    /\ reqs[r].pc \in {"audio", "invoke", "append_turn", "set_verification", "set_customer_id"}

\* C26, as stated: in every reachable state at most one turn per session is
\* between its read of the session and its write to it.
C26_Original ==
    \A s \in DOMAIN sessions :
        Cardinality({r \in Slots : BetweenReadAndWrite(r) /\ reqs[r].session_id = s}) <= 1

\* The turn in slot r has loaded its flags and its tool calls are still to come
AwaitsInvoke(rs, r) == rs[r].op = "turn" /\ rs[r].pc \in {"audio", "invoke"}

\* C27, as stated: a turn starts with the flags stored for the env_key of its
\* session, an administrator's change included, and while the turn is in flight
\* no step, of an administrator or of another session, changes the flags in
\* effect.
C27_Original ==
    [][/\ \A session_id \in DOMAIN sessions :
             (CallTurnBegin(session_id) /\ reqs' # reqs) =>
                 toolFlags' = configs[sessions[session_id].env_key].tool_flags
       /\ (\E r \in Slots : AwaitsInvoke(reqs, r) /\ AwaitsInvoke(reqs', r)) =>
             toolFlags' = toolFlags]_vars

\* C28, as stated: a call that finds no config record of its env_key and inserts
\* one does not fail when the record was created meanwhile; afterwards the
\* record exists, and a record that existed is as it was.
C28_Original ==
    [][\A r \in Slots :
          (reqs[r].pc = "ensure_insert" /\ reqs'[r] # reqs[r]) =>
              /\ reqs'[r].op = reqs[r].op
              /\ ~Has(last'.result, "raised")
              /\ Has(configs', reqs[r].env_key)
              /\ Has(configs, reqs[r].env_key) =>
                     configs'[reqs[r].env_key] = configs[reqs[r].env_key]]_vars

\* C31, as stated: the output guardrail corroborates a disclosure only with the
\* tool results of the current turn; a successful get_account_balance (or
\* get_customer_profile) result of an earlier turn never lets a balance (or
\* contact) disclosure pass in a later turn that made no such successful call,
\* with the persistent store and in memory.
C31_Original ==
    \A r \in Slots :
        Invoked(r) =>
            LET messages == reqs[r].messages
                answer == Strip(messages[Len(messages)].content)
            IN  /\ (reveals_balance(answer)
                    /\ ~SucceededInTurn(messages, "get_account_balance")) =>
                       reqs[r].bot_response \in {AskCustomerId, AskPin}
                /\ (reveals_contact(answer) /\ ~reveals_balance(answer)
                    /\ ~SucceededInTurn(messages, "get_customer_profile")) =>
                       reqs[r].bot_response \in {AskCustomerId, AskPin}

\* The same with the persistent store only, where the history given to the agent
\* is rebuilt from the stored transcripts and answers
C31_PersistentStore == USE_DB => C31_Original

----------------------------------------------------------------------------
(* main.py, _tool_succeeded on its own: traces of at most MaxTrace recorded   *)
(* results of the two tools the guardrail asks about                          *)

MaxTrace == 2

\* Results a tool message can hold: none, empty text, dicts and lists with and
\* without an error, texts with and without the words of failure, a bool
RecordedContents ==
    {NoContent, StrResult(<<>>), StrResult(<<" ">>),
     DictResult("", <<>>), ErrorDict("identity_not_verified"),
     ListResult(<<>>), ListResult(<<[id |-> 1]>>), ErrorList("tool_disabled"),
     StrResult(<<"d", "o", "n", "e">>), StrResult(<<"E", "r", "r", "o", "r", ":", " ", "x">>),
     BoolResult(TRUE)}
    \cup {StrResult(<<"n", "o", ":", " ">> \o marker) : marker \in FailureMarkers}

GuardedTools == {"get_account_balance", "get_customer_profile"}

Traces ==
    UNION {[1..n -> {ToolMessage(name, content, 0) :
                        name \in GuardedTools, content \in RecordedContents}] :
           n \in 1..MaxTrace}

\* _tool_succeeded(messages, tool_name) is called
Classify(messages, tool_name) ==
    /\ last' = [name |-> "_tool_succeeded",
                args |-> [messages |-> messages, tool_name |-> tool_name],
                result |-> BoolResult(_tool_succeeded(messages, tool_name))]
    /\ UNCHANGED <<verified, toolFlags, db, clock>>
    /\ UNCHANGED sessVars

NextClassify == \E messages \in Traces : \E tool_name \in GuardedTools : Classify(messages, tool_name)

SpecClassify == InitTools /\ [][NextClassify]_vars

----------------------------------------------------------------------------
(* Properties of _tool_succeeded *)

\* The results of the tool asked about, in the trace last classified
ResultsAsked ==
    {last.args.messages[i].content : i \in
        {j \in 1..Len(last.args.messages) :
            last.args.messages[j].name = last.args.tool_name}}

IsCleanMapping(content) == content.shape = "dict" /\ content.error = ""

IsCleanSequence(content) ==
    /\ content.shape = "list"
    /\ \A i \in 1..Len(content.items) : "error" \notin DOMAIN content.items[i]

SaysFailure(text) ==
    \/ StartsWith(<<"e", "r", "r", "o", "r">>, Lower(Strip(text)))
    \/ \E marker \in FailureMarkers : Contains(marker, Lower(text))

IsPlainText(content) ==
    /\ content.shape = "str"
    /\ Strip(content.text) # <<>>
    /\ ~SaysFailure(content.text)

\* An empty or missing result, a mapping with an error key, a sequence with an
\* element that has an error key, a text that says failure
NeverCounts(content) ==
    \/ content.shape = "none"
    \/ content.shape = "str" /\ (Strip(content.text) = <<>> \/ SaysFailure(content.text))
    \/ content.shape = "dict" /\ content.error # ""
    \/ content.shape = "list" /\ ~IsCleanSequence(content)

RECURSIVE TranscriptsAndResponses(_)
TranscriptsAndResponses(rows) ==
    IF rows = <<>> THEN <<>>
    ELSE (IF Head(rows).user_transcript # None
          THEN <<HumanMessage(Head(rows).user_transcript)>> ELSE <<>>)
         \o <<AIMessage(Head(rows).agent_response, <<>>)>>
         \o TranscriptsAndResponses(Tail(rows))

\* The agent is invoked for the request in slot r in this step and returns
InvokeReturns(r) ==
    /\ reqs[r].op = "turn" /\ reqs[r].pc = "invoke"
    /\ reqs'[r].op = "turn" /\ reqs'[r].pc # "invoke"

\* The messages the agent was given: the result up to the caller's new words
GivenToAgent(messages) == SubSeq(messages, 1, LastHuman(messages))

\* C33, as stated: the history given to the reasoning service on a turn holds,
\* for each prior turn of the session in ascending ts order, its user transcript
\* (if not null) followed by its agent response as persisted, and at the end the
\* new user utterance; no prior turn is omitted, duplicated or reordered and no
\* turn of another session is included.
C33_Original ==
    [][\A r \in Slots :
          InvokeReturns(r) =>
              GivenToAgent(reqs'[r].messages) =
                  TranscriptsAndResponses(SortByTs(turns[reqs[r].session_id]))
                  \o <<HumanMessage(reqs[r].user_text)>>]_vars

\* The same with the persistent store only
C33_PersistentStore ==
    [][USE_DB =>
          \A r \in Slots :
              InvokeReturns(r) =>
                  GivenToAgent(reqs'[r].messages) =
                      TranscriptsAndResponses(SortByTs(turns[reqs[r].session_id]))
                      \o <<HumanMessage(reqs[r].user_text)>>]_vars

\* A turn of session s begins in this step
TurnBegins(s) ==
    \E r \in Slots : reqs[r] = Idle /\ reqs'[r].op = "turn" /\ reqs'[r].session_id = s

\* The record of session s has verified_identity = true for customer c
RecordedFor(s, c) ==
    /\ sessions[s].verified_identity
    /\ sessions[s].customer_id = c
    /\ c # "guest"

\* No session but s had a successful verify_identity call for customer c
VerifiedOnlyIn(s, c) ==
    \A other \in DOMAIN sessions \ {s} : c \notin ghost.history[other].verified_here

\* C34, as stated: once a turn of session S has recorded verified_identity = true
\* for customer c, the start of every later turn of S hydrates the VerifiedSet so
\* that c is verified without a new verify_identity call; after call/end on S,
\* is_verified(c) is false.
C34_Original ==
    [][\A s \in DOMAIN sessions : \A c \in CustomerIds :
          /\ (RecordedFor(s, c) /\ TurnBegins(s)) => _is_verified(verified', c)
          /\ (RecordedFor(s, c)' /\ sessions'[s].ended /\ VerifiedOnlyIn(s, c)') =>
                 ~_is_verified(verified', c)]_vars

\* The first half alone: the start of a later turn hydrates the VerifiedSet
C34_Hydrated ==
    [][\A s \in DOMAIN sessions : \A c \in CustomerIds :
          (RecordedFor(s, c) /\ TurnBegins(s)) => _is_verified(verified', c)]_vars

----------------------------------------------------------------------------
(* Properties of the data store *)

\* Every card has the same status in the card table and in its owner's card list
CardsConsistent(d) ==
    /\ \A card_id \in DOMAIN d.cards :
          LET owner == d.cards[card_id].customer_id IN
          Has(d.customers, owner) =>
              \A i \in 1..Len(d.customers[owner].cards) :
                  d.customers[owner].cards[i].card_id = card_id =>
                      d.customers[owner].cards[i].status = d.cards[card_id].status
    /\ \A customer_id \in DOMAIN d.customers :
          \A i \in 1..Len(d.customers[customer_id].cards) :
              LET card == d.customers[customer_id].cards[i] IN
              /\ Has(d.cards, card.card_id)
              /\ d.cards[card.card_id].status = card.status

\* C35: in every reachable state a card has the same status in the card table
\* and in its owner's card list, and no step makes a blocked card active again.
C35_BlockPermanent ==
    [][/\ CardsConsistent(db)
       /\ CardsConsistent(db')
       /\ \A card_id \in DOMAIN db.cards :
             db.cards[card_id].status = "blocked" =>
                 /\ Has(db'.cards, card_id)
                 /\ db'.cards[card_id].status = "blocked"]_vars

\* C35's case: the card was blocked before the last tool call, which was not
\* refused, and is blocked after it
C35_Witness ==
    /\ last.name \in {"update_address", "block_card", "report_cash_not_dispensed"}
    /\ ~IsNotVerifiedError(last.result)
    /\ ~IsDisabledError(last.result)
    /\ last.before.cards["card_123"].status = "blocked"
    /\ last.name = "update_address" => db # last.before
    /\ db.cards["card_123"].status = "blocked"

Responds(r) ==
    /\ reqs[r].op = "turn" /\ reqs[r].pc = "synthesize"
    /\ reqs'[r] = Idle

\* The guardrail has to replace the answer the model gave in the turn in slot r
MustReplace(r) ==
    LET messages == reqs[r].messages
        answer == Strip(messages[Len(messages)].content)
    IN  \/ reveals_balance(answer) /\ ~_tool_succeeded(messages, "get_account_balance")
        \/ reveals_contact(answer) /\ ~_tool_succeeded(messages, "get_customer_profile")

ReadOnlyTools ==
    {"get_account_balance", "get_customer_profile", "get_recent_transactions",
     "get_customer_cards", "request_statement", "get_verification_status"}

\* This step called verify_identity, which returned false
VerifyFailed ==
    /\ last' # NoCall
    /\ last'.name = "verify_identity"
    /\ ~last'.result.ok

\* C38: when verify_identity returns false (unknown customer, wrong PIN, PIN
\* length outside [4,6], tool disabled) the VerifiedSet is as before the call, so
\* nobody is verified and no verification is revoked; the read-only operations
\* leave the data store and the VerifiedSet unchanged in every outcome.
C38_FailedVerifyFrame ==
    [][/\ VerifyFailed => verified' = verified
       /\ (last' # NoCall /\ last'.name \in ReadOnlyTools) =>
              (db' = db /\ verified' = verified)]_vars

\* C38's case: verify_identity was called with a PIN of three digits for a
\* customer who was verified, it returned false, and the customer is verified still
C38_Witness ==
    /\ last.name = "verify_identity"
    /\ last.args.customer_id = "user123"
    /\ Len(last.args.pin) = 3
    /\ ~last.result.ok
    /\ "user123" \in verified

\* This step called report_cash_not_dispensed, which returned a dispute_id
DisputeFiled ==
    /\ last' # NoCall
    /\ last'.name = "report_cash_not_dispensed"
    /\ last'.result.error = ""

\* C39, as stated: every successful report_cash_not_dispensed call creates a new
\* dispute record; the number of stored disputes grows by one, the returned
\* dispute_id differs from every dispute_id returned before, and no stored
\* dispute is overwritten, also when two disputes are filed in the same second.
C39_Original ==
    [][DisputeFiled =>
          /\ Cardinality(DOMAIN db'.disputes) = Cardinality(DOMAIN db.disputes) + 1
          /\ last'.result.data.dispute_id \notin DOMAIN db.disputes
          /\ \A dispute_id \in DOMAIN db.disputes :
                 db'.disputes[dispute_id] = db.disputes[dispute_id]]_vars

============================================================================
